---- MODULE Spec2Model ----
(***************************************************************************)
(* Resource dependency graph and deterministic ordering engine of temple:  *)
(* buildGraphs (dag.go) collects the CSS and JavaScript resources of a     *)
(* component list into three graphs, walkGraph (dag.go) linearises each    *)
(* graph, basicRender (render.go) renders the ordered resources.           *)
(* Render (render.go) applies the render options, calls basicRender, which *)
(* gets the page's template from getTemplate and the Site's template       *)
(* cache, and writes the page, the server error page or "Server error.".   *)
(* getRecursiveComponents (render.go) lists the components of a page's     *)
(* uses-tree; parseResource (render.go) loads, caches and parses the       *)
(* template body of each resource; CachedSite guards its two caches with   *)
(* a sync.RWMutex each.                                                    *)
(*                                                                         *)
(* Positions in a node list are 1-based here (Go: 0-based); "no previous   *)
(* node" is 0 here (Go: -1).                                               *)
(***************************************************************************)
EXTENDS Integers, Sequences, FiniteSets, TLC

VARIABLES components, pc, cur, graphs, noParents, results, ordered, err, out

\* The state of Render (render.go) and of the Site it renders for: the Site,
\* the requested Page, the Page basicRender is rendering and whether that is
\* the requested page or the server error page, the renderOpts, the files of
\* the Site's TemplateDir, the template cache of the Site, the template
\* getTemplate returned, what GetCachedTemplate returned, the files
\* getTemplate read, what has been written to the io.Writer, the error of
\* the requested page, and the previous call of Render.
VARIABLES site, page, req, phase, opts, files, templateCache, tmpl, lookup,
          reads, writer, pageErr, lastCall

renderVars == <<site, page, req, phase, opts, files, templateCache, tmpl,
                lookup, reads, writer, pageErr, lastCall>>

\* The resource cache of the Site (CachedSite.resourceCache): the template
\* body cached for each key.
VARIABLES resourceCache

\* What UseComponents returns for each component of the page's uses-tree.
VARIABLES uses

\* The goroutines calling Render for one CachedSite at the same time, and
\* the two sync.RWMutex of the CachedSite.
VARIABLES goroutines, templateCacheMu, resourceCacheMu

otherVars == <<uses, goroutines, templateCacheMu, resourceCacheMu>>

graphVars == <<components, pc, cur, graphs, noParents, results, ordered, err, out>>

vars == <<graphVars, renderVars, resourceCache, otherVars>>

-----------------------------------------------------------------------------
(* Bounds of the model.                                                    *)

\* number of components in the walked component list
MaxComponents == 2
\* number of resource declarations returned by all capability calls together
MaxResources == 3
\* identity keys (Href, Src, TemplatePath) are 1..MaxKey, compared as Go
\* compares strings: lexicographically, here numerically
MaxKey == 3

-----------------------------------------------------------------------------
(* Resources.                                                              *)

\* resource_rel.go: the three ResourceRelationship values
ResourceRelationshipAfter == "after"
ResourceRelationshipBefore == "before"
ResourceRelationshipNeutral == "neutral"

\* A nil relation calculator.
NilCalculator == [on |-> 0, rel |-> "nil"]

\* A relation calculator that answers rel for a candidate whose
\* Href/Src/TemplatePath is `on` and Neutral for every other candidate.
Calculators ==
    [on : 1..MaxKey, rel : {ResourceRelationshipBefore, ResourceRelationshipAfter}]

\* The call calc(ctx, other) of a non-nil calculator.
Calculate(calc, other) ==
    IF other.path = calc.on THEN calc.rel ELSE ResourceRelationshipNeutral

IsInline(res) == res.type \in {"CSSInline", "JSInline"}
IsLink(res) == res.type \in {"CSSLink", "JSLink"}

\* equal comparing every field, the calculators and
\* DisableImplicitOrdering included.
equalWithFlags(res, other) == res = other

\* CSSInline.equal, CSSLink.equal, JSInline.equal, JSLink.equal: same Go
\* type, same identity and rendering attributes; the relation calculators
\* and DisableImplicitOrdering are not compared.
equal(res, other) ==
    /\ res.type = other.type
    /\ res.path = other.path
    /\ res.attrs = other.attrs
    /\ res.Type = other.Type
    /\ res.PlaceInFooter = other.PlaceInFooter

HasCalculator(res) ==
    res.linkCalc # NilCalculator \/ res.inlineCalc # NilCalculator

-----------------------------------------------------------------------------
(* Graphs: a node list and the two edge maps.  A map is a function whose   *)
(* domain is the set of keys present.                                      *)

EmptyGraph == [nodes |-> <<>>, edgesTo |-> <<>>, edgesFrom |-> <<>>]

MapGet(m, k) == IF k \in DOMAIN m THEN m[k] ELSE {}

MapPut(m, k, v) == [x \in (DOMAIN m) \cup {k} |-> IF x = k THEN v ELSE m[x]]

MapDelete(m, k) == [x \in (DOMAIN m) \ {k} |-> m[x]]

\* edgesFrom[from][to] = struct{}{}; edgesTo[to][from] = struct{}{}
AddEdge(g, from, to) ==
    [g EXCEPT !.edgesFrom = MapPut(@, from, MapGet(@, from) \cup {to}),
              !.edgesTo = MapPut(@, to, MapGet(@, to) \cup {from})]

-----------------------------------------------------------------------------
(* buildGraphs, first half: collecting the resources of the components.    *)

\* slices.ContainsFunc(nodes, func(existing) bool { return res.equal(existing) })
ContainsEqual(nodes, res) ==
    \E n \in 1..Len(nodes) : equal(res, nodes[n])

\* ImplicitEdge without the two map writes.
ImplicitEdgeDropped(g, thisNode, last) == g

\* ImplicitEdge with the edge from the previous node to this node.
ImplicitEdgeExchanged(g, thisNode, last) ==
    IF last > 0 THEN AddEdge(g, last, thisNode) ELSE g

\* if lastLink >= 0 { edgesFrom[thisNode][lastLink]; edgesTo[lastLink][thisNode] }
ImplicitEdge(g, thisNode, last) ==
    IF last > 0 THEN AddEdge(g, thisNode, last) ELSE g

\* CollectCSS with `lastLink = thisNode` moved above the test of the
\* calculators and DisableImplicitOrdering.
RECURSIVE CollectCSSLastFirst(_, _, _, _)
CollectCSSLastFirst(g, slice, i, last) ==
    IF i > Len(slice) THEN g
    ELSE IF ContainsEqual(g.nodes, slice[i])
         THEN CollectCSSLastFirst(g, slice, i + 1, last)
         ELSE LET added == [g EXCEPT !.nodes = Append(@, slice[i])]
                  thisNode == Len(added.nodes)
              IN  IF HasCalculator(slice[i]) \/ slice[i].DisableImplicitOrdering
                  THEN CollectCSSLastFirst(added, slice, i + 1, thisNode)
                  ELSE CollectCSSLastFirst(ImplicitEdge(added, thisNode, last),
                                           slice, i + 1, thisNode)

\* One `for _, link := range links` loop over a CSS slice (LinkCSS or
\* EmbedCSS), from element i on, with lastLink/lastBlock = last.
RECURSIVE CollectCSS(_, _, _, _)
CollectCSS(g, slice, i, last) ==
    IF i > Len(slice) THEN g
    ELSE IF ContainsEqual(g.nodes, slice[i])
         THEN CollectCSS(g, slice, i + 1, last)
         ELSE LET added == [g EXCEPT !.nodes = Append(@, slice[i])]
                  thisNode == Len(added.nodes)
              IN  IF HasCalculator(slice[i]) \/ slice[i].DisableImplicitOrdering
                  THEN CollectCSS(added, slice, i + 1, last)
                  ELSE CollectCSS(ImplicitEdge(added, thisNode, last),
                                  slice, i + 1, thisNode)

\* CollectJS with one previous node for both placements.
RECURSIVE CollectJSSharedLast(_, _, _, _, _)
CollectJSSharedLast(gs, slice, i, lastHead, lastFoot) ==
    IF i > Len(slice) THEN gs
    ELSE IF slice[i].PlaceInFooter
    THEN IF ContainsEqual(gs.footJS.nodes, slice[i])
         THEN CollectJSSharedLast(gs, slice, i + 1, lastHead, lastFoot)
         ELSE LET added == [gs.footJS EXCEPT !.nodes = Append(@, slice[i])]
                  thisNode == Len(added.nodes)
              IN  IF HasCalculator(slice[i]) \/ slice[i].DisableImplicitOrdering
                  THEN CollectJSSharedLast([gs EXCEPT !.footJS = added],
                                 slice, i + 1, lastHead, lastFoot)
                  ELSE CollectJSSharedLast([gs EXCEPT !.footJS =
                                        ImplicitEdge(added, thisNode, lastFoot)],
                                 slice, i + 1, thisNode, thisNode)
    ELSE IF ContainsEqual(gs.headJS.nodes, slice[i])
         THEN CollectJSSharedLast(gs, slice, i + 1, lastHead, lastFoot)
         ELSE LET added == [gs.headJS EXCEPT !.nodes = Append(@, slice[i])]
                  thisNode == Len(added.nodes)
              IN  IF HasCalculator(slice[i]) \/ slice[i].DisableImplicitOrdering
                  THEN CollectJSSharedLast([gs EXCEPT !.headJS = added],
                                 slice, i + 1, lastHead, lastFoot)
                  ELSE CollectJSSharedLast([gs EXCEPT !.headJS =
                                        ImplicitEdge(added, thisNode, lastHead)],
                                 slice, i + 1, thisNode, thisNode)

\* CollectJS without the test of PlaceInFooter: every resource is put
\* into the header graph.
RECURSIVE CollectJSAllHead(_, _, _, _, _)
CollectJSAllHead(gs, slice, i, lastHead, lastFoot) ==
    IF i > Len(slice) THEN gs
    ELSE IF ContainsEqual(gs.headJS.nodes, slice[i])
         THEN CollectJSAllHead(gs, slice, i + 1, lastHead, lastFoot)
         ELSE LET added == [gs.headJS EXCEPT !.nodes = Append(@, slice[i])]
                  thisNode == Len(added.nodes)
              IN  IF HasCalculator(slice[i]) \/ slice[i].DisableImplicitOrdering
                  THEN CollectJSAllHead([gs EXCEPT !.headJS = added],
                                        slice, i + 1, lastHead, lastFoot)
                  ELSE CollectJSAllHead([gs EXCEPT !.headJS =
                                               ImplicitEdge(added, thisNode, lastHead)],
                                        slice, i + 1, thisNode, lastFoot)

\* One loop over a JS slice (LinkJS or EmbedJS): gs is the pair of the
\* header and footer graphs, lastHead/lastFoot the previous node of this
\* call in each of them.
RECURSIVE CollectJS(_, _, _, _, _)
CollectJS(gs, slice, i, lastHead, lastFoot) ==
    IF i > Len(slice) THEN gs
    ELSE IF slice[i].PlaceInFooter
    THEN IF ContainsEqual(gs.footJS.nodes, slice[i])
         THEN CollectJS(gs, slice, i + 1, lastHead, lastFoot)
         ELSE LET added == [gs.footJS EXCEPT !.nodes = Append(@, slice[i])]
                  thisNode == Len(added.nodes)
              IN  IF HasCalculator(slice[i]) \/ slice[i].DisableImplicitOrdering
                  THEN CollectJS([gs EXCEPT !.footJS = added],
                                 slice, i + 1, lastHead, lastFoot)
                  ELSE CollectJS([gs EXCEPT !.footJS =
                                        ImplicitEdge(added, thisNode, lastFoot)],
                                 slice, i + 1, lastHead, thisNode)
    ELSE IF ContainsEqual(gs.headJS.nodes, slice[i])
         THEN CollectJS(gs, slice, i + 1, lastHead, lastFoot)
         ELSE LET added == [gs.headJS EXCEPT !.nodes = Append(@, slice[i])]
                  thisNode == Len(added.nodes)
              IN  IF HasCalculator(slice[i]) \/ slice[i].DisableImplicitOrdering
                  THEN CollectJS([gs EXCEPT !.headJS = added],
                                 slice, i + 1, lastHead, lastFoot)
                  ELSE CollectJS([gs EXCEPT !.headJS =
                                        ImplicitEdge(added, thisNode, lastHead)],
                                 slice, i + 1, thisNode, lastFoot)

\* CollectComponent with lastBlock starting at the last node of the graph
\* instead of -1.
CollectComponentChained(gs, component) ==
    LET css1 == CollectCSS(gs.css, component.LinkCSS, 1, 0)
        css2 == CollectCSS(css1, component.EmbedCSS, 1, Len(css1.nodes))
        js1 == CollectJS(gs, component.LinkJS, 1, 0, 0)
        js2 == CollectJS(js1, component.EmbedJS, 1, 0, 0)
    IN  [css |-> css2, headJS |-> js2.headJS, footJS |-> js2.footJS]

\* The body of `for _, component := range components` for one component:
\* LinkCSS, EmbedCSS, LinkJS, EmbedJS, in this order.
CollectComponent(gs, component) ==
    LET css1 == CollectCSS(gs.css, component.LinkCSS, 1, 0)
        css2 == CollectCSS(css1, component.EmbedCSS, 1, 0)
        js1 == CollectJS(gs, component.LinkJS, 1, 0, 0)
        js2 == CollectJS(js1, component.EmbedJS, 1, 0, 0)
    IN  [css |-> css2, headJS |-> js2.headJS, footJS |-> js2.footJS]

\* The loop over the components, from component c on.
RECURSIVE CollectResources(_, _, _)
CollectResources(gs, comps, c) ==
    IF c > Len(comps) THEN gs
    ELSE CollectResources(CollectComponent(gs, comps[c]), comps, c + 1)

EmptyGraphs == [css |-> EmptyGraph, headJS |-> EmptyGraph, footJS |-> EmptyGraph]

-----------------------------------------------------------------------------
(* buildGraphs, second half: the edges of the relation calculators.        *)

\* CSSRelation with the cases After and Before exchanged.
CSSRelationExchanged(res, comp) ==
    LET rel == IF IsInline(comp)
               THEN IF res.inlineCalc = NilCalculator THEN ResourceRelationshipNeutral
                    ELSE Calculate(res.inlineCalc, comp)
               ELSE IF res.linkCalc = NilCalculator THEN ResourceRelationshipNeutral
                    ELSE Calculate(res.linkCalc, comp)
    IN  CASE rel = ResourceRelationshipAfter -> ResourceRelationshipBefore
          [] rel = ResourceRelationshipBefore -> ResourceRelationshipAfter
          [] OTHER -> rel

\* The verdict of the CSS loop for node `res` against candidate `comp`: a
\* nil comparer for the candidate's kind skips the candidate (continue).
CSSRelation(res, comp) ==
    IF IsInline(comp)
    THEN IF res.inlineCalc = NilCalculator THEN ResourceRelationshipNeutral
         ELSE Calculate(res.inlineCalc, comp)
    ELSE IF res.linkCalc = NilCalculator THEN ResourceRelationshipNeutral
         ELSE Calculate(res.linkCalc, comp)

\* The JS loops call the comparer of the candidate's kind without a nil
\* check: calling a nil func panics.
JSCallsNil(res, comp) ==
    IF IsInline(comp) THEN res.inlineCalc = NilCalculator
    ELSE res.linkCalc = NilCalculator

JSRelation(res, comp) ==
    IF IsInline(comp) THEN Calculate(res.inlineCalc, comp)
    ELSE Calculate(res.linkCalc, comp)

\* The verdict of the loop of the graph that holds res and comp: the CSS
\* loop for the css graph, a JS loop for headJS and footJS.
Relation(res, comp) ==
    IF res.type \in {"CSSInline", "CSSLink"} THEN CSSRelation(res, comp)
    ELSE JSRelation(res, comp)

\* RelationEdges when a node's calculators are asked only about the nodes
\* discovered before it.
RelationEdgesAtDiscovery(g) ==
    LET N == 1..Len(g.nodes)
        Pairs(rel) ==
            {e \in N \X N : /\ e[2] <= e[1]
                            /\ HasCalculator(g.nodes[e[1]])
                            /\ Relation(g.nodes[e[1]], g.nodes[e[2]]) = rel}
    IN  {<<e[1], e[2]>> : e \in Pairs(ResourceRelationshipAfter)}
        \cup {<<e[2], e[1]>> : e \in Pairs(ResourceRelationshipBefore)}

\* The (from, to) pairs the two nested loops over g.nodes add: After adds
\* pos -> compPos, Before adds compPos -> pos.  Nodes without any
\* calculator are skipped.
RelationEdges(g) ==
    LET N == 1..Len(g.nodes)
        Pairs(rel) ==
            {e \in N \X N : /\ HasCalculator(g.nodes[e[1]])
                            /\ Relation(g.nodes[e[1]], g.nodes[e[2]]) = rel}
    IN  {<<e[1], e[2]>> : e \in Pairs(ResourceRelationshipAfter)}
        \cup {<<e[2], e[1]>> : e \in Pairs(ResourceRelationshipBefore)}

\* AddEdges with the edge maps made anew from the added edges.
AddEdgesReplacing(g, E) ==
    [g EXCEPT
       !.edgesFrom = [k \in {e[1] : e \in E} |-> {e[2] : e \in {d \in E : d[1] = k}}],
       !.edgesTo = [k \in {e[2] : e \in E} |-> {e[1] : e \in {d \in E : d[2] = k}}]]

\* Adding a set of edges to both edge maps (map writes commute).
AddEdges(g, E) ==
    [g EXCEPT
       !.edgesFrom = [k \in (DOMAIN @) \cup {e[1] : e \in E} |->
                        MapGet(@, k) \cup {e[2] : e \in {d \in E : d[1] = k}}],
       !.edgesTo = [k \in (DOMAIN @) \cup {e[2] : e \in E} |->
                        MapGet(@, k) \cup {e[1] : e \in {d \in E : d[2] = k}}]]

\* TRUE when one of the JS loops reaches a call of a nil comparer.
JSPanics(g) ==
    \E pos, compPos \in 1..Len(g.nodes) :
        /\ HasCalculator(g.nodes[pos])
        /\ JSCallsNil(g.nodes[pos], g.nodes[compPos])

RelationGraphs(gs) ==
    [css |-> AddEdges(gs.css, RelationEdges(gs.css)),
     headJS |-> AddEdges(gs.headJS, RelationEdges(gs.headJS)),
     footJS |-> AddEdges(gs.footJS, RelationEdges(gs.footJS))]

\* buildGraphs as a whole, when it does not panic.
buildGraphs(comps) == RelationGraphs(CollectResources(EmptyGraphs, comps, 1))

-----------------------------------------------------------------------------
(* sortNodes and walkGraph.                                                *)

\* sortNodes with the results for an inline against a link resource and
\* for a link against an inline resource exchanged.
sortNodesInlineFirst(first, second) ==
    IF IsInline(first)
    THEN IF IsInline(second)
         THEN IF first.path < second.path THEN -1
              ELSE IF second.path < first.path THEN 1 ELSE 0
         ELSE -1
    ELSE IF IsInline(second)
         THEN 1
         ELSE IF first.path < second.path THEN -1
              ELSE IF second.path < first.path THEN 1 ELSE 0

\* sortNodes: -1, 0 or 1.  An inline resource against a link resource is 1,
\* a link resource against an inline resource is -1; two resources of one
\* kind compare by TemplatePath (inline) or Href/Src (link).
sortNodes(first, second) ==
    IF IsInline(first)
    THEN IF IsInline(second)
         THEN IF first.path < second.path THEN -1
              ELSE IF second.path < first.path THEN 1 ELSE 0
         ELSE 1
    ELSE IF IsInline(second)
         THEN -1
         ELSE IF first.path < second.path THEN -1
              ELSE IF second.path < first.path THEN 1 ELSE 0

\* sortNodesByPos with its two nodes exchanged.
sortNodesByPosExchanged(nodes, a, b) == sortNodes(nodes[b], nodes[a])

sortNodesByPos(nodes, a, b) == sortNodes(nodes[a], nodes[b])

\* slices.SortFunc(noParents, sortNodesByPos) on the positions in S: the
\* sort is not stable, so every arrangement of S that the comparator
\* accepts as sorted is a possible result.
SortFunc(nodes, S) ==
    {p \in [1..Cardinality(S) -> S] :
        /\ \A i, j \in DOMAIN p : i # j => p[i] # p[j]
        /\ \A i, j \in DOMAIN p : i < j => sortNodesByPos(nodes, p[i], p[j]) <= 0}

Range(seq) == {seq[i] : i \in DOMAIN seq}

\* The first loop of walkGraph: the positions without an entry, or with an
\* empty entry, in edgesFrom.
InitialNoParents(g) ==
    {pos \in 1..Len(g.nodes) : MapGet(g.edgesFrom, pos) = {}}

\* Released without the test `len(resources.edgesFrom[child]) < 1`.
ReleasedUnchecked(g, pos) == MapGet(g.edgesTo, pos)

\* The children of pos that the inner loop appends to noParents: those
\* whose last outstanding dependency is pos.
Released(g, pos) ==
    {child \in MapGet(g.edgesTo, pos) : MapGet(g.edgesFrom, child) \ {pos} = {}}

\* The edge maps after the inner loop `for child := range edgesTo[pos]`:
\* every edge child -> pos is deleted from both maps, and an entry that
\* becomes empty is deleted.
ConsumeEdges(g, pos) ==
    LET children == MapGet(g.edgesTo, pos)
    IN  [g EXCEPT
           !.edgesFrom = [k \in (DOMAIN @) \ Released(g, pos) |->
                            IF k \in children THEN @[k] \ {pos} ELSE @[k]],
           !.edgesTo = IF children = {} THEN @ ELSE MapDelete(@, pos)]

\* LoopNoParents with the released children appended in the order of
\* their positions and the list not sorted again.
LoopNoParentsAppended(g, np) ==
    {Tail(np) \o p :
       p \in {q \in [1..Cardinality(Released(g, np[1])) -> Released(g, np[1])] :
                \A i, j \in DOMAIN q : i < j => q[i] < q[j]}}

\* noParents after one iteration of the main loop that pops np[1]: the
\* released children are appended and, if there are any, the list is
\* sorted again.
LoopNoParents(g, np) ==
    IF Released(g, np[1]) = {}
    THEN {Tail(np)}
    ELSE SortFunc(g.nodes, Range(Tail(np)) \cup Released(g, np[1]))

\* EdgesRemain when the test of the remaining edges is left out.
EdgesRemainUntested(g) == FALSE

\* len(resources.edgesTo) > 0 || len(resources.edgesFrom) > 0
EdgesRemain(g) == DOMAIN g.edgesTo # {} \/ DOMAIN g.edgesFrom # {}

NextGraph(name) == IF name = "css" THEN "headJS" ELSE "footJS"

\* A resource is a record: type is its Go type, path its Href, Src or
\* TemplatePath, attrs the attributes its template reads from the template
\* data, Type the type attribute of a <script> (0: not set; 0 for CSS).

\* CSSLink.getKey, CSSInline.getKey, JSLink.getKey, JSInline.getKey: the
\* TemplatePath of an inline resource; for a link, whose TemplatePath is
\* not set here, the constant naming the default template of its Go type.
getKey(res) ==
    IF res.type = "CSSLink" THEN <<":::impractical.co/temple:defaultCSSLinkTemplate", 0>>
    ELSE IF res.type = "JSLink" THEN <<":::impractical.co/temple:defaultJSLinkTemplate", 0>>
    ELSE <<"TemplatePath", res.path>>

IsJS(res) == res.type \in {"JSLink", "JSInline"}

\* CSSLink.getCSS, CSSInline.getCSS, JSLink.getJS, JSInline.getJS: the
\* template literal of the Go type, around the contents of the file at
\* TemplatePath for an inline resource; getJS concatenates ` type="..."`
\* for the resource's Type into the literal.
getBody(res) ==
    [literal |-> res.type,
     contents |-> IF res.type \in {"CSSInline", "JSInline"} THEN res.path ELSE 0,
     Type |-> IF IsJS(res) THEN res.Type ELSE 0]

\* tmpl.ExecuteTemplate(&buf, key, data) for a template parsed from body,
\* with the resource as the data: the element of the literal, its contents
\* or the Href or Src of the data, the attributes of the data, and the
\* type attribute of the literal.
Execute(body, res) ==
    [type |-> body.literal,
     path |-> IF body.literal \in {"CSSInline", "JSInline"} THEN body.contents
              ELSE res.path,
     attrs |-> res.attrs,
     Type |-> body.Type]

\* The markup of a resource rendered with the template of its own body.
Markup(res) == Execute(getBody(res), res)

\* CachedSite.GetCachedResource: the body cached for the key; NoBody is nil.
NoBody == [literal |-> "", contents |-> 0, Type |-> 0]

GetCachedResource(cache, key) ==
    IF key \in DOMAIN cache THEN cache[key] ELSE NoBody

\* CachedSite.SetCachedResource: s.resourceCache[key] = resource.
SetCachedResource(cache, key, body) ==
    [k \in (DOMAIN cache) \cup {key} |-> IF k = key THEN body ELSE cache[k]]

\* template.New(""): no template is associated yet.
NoTemplates == <<>>

NoOrder == [css |-> <<>>, headJS |-> <<>>, footJS |-> <<>>]

-----------------------------------------------------------------------------
(* The steps of basicRender.                                               *)

\* buildGraphs, lines 69-240: the resources of every component are
\* collected, with their implicit edges.
Collect ==
    /\ pc = "collect"
    /\ graphs' = CollectResources(EmptyGraphs, components, 1)
    /\ pc' = "calculate"
    /\ UNCHANGED <<components, cur, noParents, results, ordered, err, out>>
    /\ UNCHANGED renderVars
    /\ UNCHANGED <<resourceCache, otherVars>>

\* WalkBegin without the call of slices.SortFunc: noParents in the order
\* of the nodes.
WalkBeginUnsorted(g) ==
    {p \in [1..Cardinality(InitialNoParents(g)) -> InitialNoParents(g)] :
        \A i, j \in DOMAIN p : i < j => p[i] < p[j]}

\* The prologue of walkGraph (lines 464-479) for graph g: the nodes without
\* dependencies, sorted.
WalkBegin(g) == SortFunc(g.nodes, InitialNoParents(g))

\* buildGraphs, lines 241-385: the relation calculators are evaluated;
\* basicRender then calls walkGraph for the CSS graph, which runs up to its
\* main loop.
CalculateRelations ==
    /\ pc = "calculate"
    /\ IF JSPanics(graphs.headJS) \/ JSPanics(graphs.footJS)
       THEN /\ pc' = "panic"
            /\ graphs' = [graphs EXCEPT
                 !.css = AddEdges(@, RelationEdges(@))]
            /\ UNCHANGED noParents
       ELSE /\ pc' = "walkLoop"
            /\ graphs' = RelationGraphs(graphs)
            /\ noParents' \in WalkBegin(graphs'.css)
    /\ UNCHANGED <<components, cur, results, ordered, err, out>>
    /\ UNCHANGED renderVars
    /\ UNCHANGED <<resourceCache, otherVars>>

\* walkGraph, lines 480-503: one iteration of `for len(noParents) > 0`.
WalkLoop ==
    /\ pc = "walkLoop"
    /\ noParents # <<>>
    /\ LET pos == noParents[1]
           g == graphs[cur]
       IN  /\ results' = Append(results, g.nodes[pos])
           /\ graphs' = [graphs EXCEPT ![cur] = ConsumeEdges(g, pos)]
           /\ noParents' \in LoopNoParents(g, noParents)
    /\ UNCHANGED <<components, pc, cur, ordered, err, out>>
    /\ UNCHANGED renderVars
    /\ UNCHANGED <<resourceCache, otherVars>>

\* walkGraph, lines 504-536, and its caller (render.go 238-249): on an
\* error basicRender returns it; otherwise it keeps the order and calls
\* walkGraph for the next graph, which runs up to its main loop.
WalkReturn ==
    /\ pc = "walkLoop"
    /\ noParents = <<>>
    /\ IF EdgesRemain(graphs[cur])
       THEN /\ err' = "ErrResourceCycle"
            /\ pc' = "failed"
            /\ UNCHANGED <<cur, ordered, noParents, results>>
       ELSE /\ ordered' = [ordered EXCEPT ![cur] = results]
            /\ err' = "nil"
            /\ IF cur = "footJS"
               THEN /\ pc' = "render"
                    /\ UNCHANGED <<cur, noParents, results>>
               ELSE /\ pc' = "walkLoop"
                    /\ cur' = NextGraph(cur)
                    /\ noParents' \in WalkBegin(graphs[NextGraph(cur)])
                    /\ results' = <<>>
    /\ UNCHANGED <<components, graphs, out>>
    /\ UNCHANGED renderVars
    /\ UNCHANGED <<resourceCache, otherVars>>

\* getCSS and getJS without the test of the TemplatePath.
GetBodyFailsNever(res) == FALSE

\* CSSInline.getCSS, JSInline.getJS: an inline resource whose TemplatePath
\* is empty once trimmed (path 0 here) has no body to load.
GetBodyFails(res) == IsInline(res) /\ res.path = 0

BodyError(res) ==
    IF res.type = "CSSInline" THEN "ErrCSSInlineTemplatePathNotSet"
    ELSE "ErrJSInlineTemplatePathNotSet"

\* parseResource, render.go 367-402, for a ResourceCacher or another Site:
\* the body is the cached one if there is one, else what getCSS or getJS
\* returns, which may fail; the body is cached under the key and parsed
\* into the template of that name associated with target, replacing a
\* template of that name parsed before.
parseResource(s, res, cache, target) ==
    LET key == getKey(res)
        cached == IF s.cacher THEN GetCachedResource(cache, key) ELSE NoBody
    IN  IF cached = NoBody /\ GetBodyFails(res)
        THEN [err |-> BodyError(res), cache |-> cache, target |-> target]
        ELSE LET body == IF cached = NoBody THEN getBody(res) ELSE cached
             IN  [err |-> "nil",
                  cache |-> IF s.cacher THEN SetCachedResource(cache, key, body)
                            ELSE cache,
                  target |-> [k \in (DOMAIN target) \cup {key} |->
                                IF k = key THEN body ELSE target[k]]]

\* basicRender, lines 254-271: one of the three loops calling parseResource
\* for every resource of a list, returning at the first error.
RECURSIVE ParseAll(_, _, _, _)
ParseAll(s, seq, cache, target) ==
    IF seq = <<>> THEN [err |-> "nil", cache |-> cache, target |-> target]
    ELSE LET parsed == parseResource(s, Head(seq), cache, target)
         IN  IF parsed.err # "nil" THEN parsed
             ELSE ParseAll(s, Tail(seq), parsed.cache, parsed.target)

\* basicRender, lines 273-339: one of the three loops executing, for every
\* resource of a list, the template its key names with the resource as
\* data.
RenderAll(target, seq) ==
    [i \in 1..Len(seq) |-> Execute(target[getKey(seq[i])], seq[i])]

\* basicRender, lines 250-339: the body of every ordered resource is
\* loaded and parsed, list by list, each list into a template of its own,
\* and basicRender returns the first error; then every resource is
\* rendered, list by list.
RenderResources ==
    /\ pc = "render"
    /\ LET css == ParseAll(site, ordered.css, resourceCache, NoTemplates)
           headJS == IF css.err # "nil" THEN css
                     ELSE ParseAll(site, ordered.headJS, css.cache, NoTemplates)
           footJS == IF headJS.err # "nil" THEN headJS
                     ELSE ParseAll(site, ordered.footJS, headJS.cache, NoTemplates)
       IN  /\ resourceCache' = footJS.cache
           /\ IF footJS.err # "nil"
              THEN /\ err' = footJS.err
                   /\ pc' = "resourceError"
                   /\ UNCHANGED out
              ELSE /\ out' = [CSS |-> RenderAll(css.target, ordered.css),
                              HeaderJS |-> RenderAll(headJS.target, ordered.headJS),
                              FooterJS |-> RenderAll(footJS.target, ordered.footJS)]
                   /\ pc' = "done"
                   /\ UNCHANGED err
    /\ UNCHANGED <<components, cur, graphs, noParents, results, ordered>>
    /\ UNCHANGED <<renderVars, otherVars>>

Next ==
    \/ Collect
    \/ CalculateRelations
    \/ WalkLoop
    \/ WalkReturn
    \/ RenderResources

-----------------------------------------------------------------------------
(* Render: templates and the template cache.                               *)

\* The files of the Site's TemplateDir, and a pattern matching all of them.
\* files[f] is the content of file f: 0 when the file does not exist, and a
\* different number for every different content.
TemplateFiles == {"base.tmpl", "foo.tmpl", "baz.tmpl"}

AnyFile == "*.tmpl"

\* fs.Glob(fsys, pattern): the names of the existing files the pattern
\* matches; a pattern without metacharacters matches the file of that name.
Glob(fsys, pattern) ==
    IF pattern = AnyFile
    THEN {f \in DOMAIN fsys : fsys[f] > 0}
    ELSE {f \in DOMAIN fsys : f = pattern /\ fsys[f] > 0}

\* A *template.Template is the set of its associated templates, each a pair
\* of its Name() and the content it was parsed from; nil is the empty set.
NilTemplate == {}

TemplateNames(t) == {x[1] : x \in t}

\* parseTemplates, lines 497-527: every pattern is expanded with fs.Glob, a
\* pattern matching no file is an error; then every matched file is read
\* and parsed into a template named as the file.
parseTemplates(fsys, patterns) ==
    LET matched == UNION {Glob(fsys, patterns[i]) : i \in DOMAIN patterns}
    IN  IF \E i \in DOMAIN patterns : Glob(fsys, patterns[i]) = {}
        THEN [tmpl |-> NilTemplate, err |-> "ErrTemplatePatternMatchesNoFiles",
              reads |-> {}]
        ELSE IF matched = {}
        THEN [tmpl |-> NilTemplate, err |-> "ErrNoTemplatePath", reads |-> {}]
        ELSE [tmpl |-> {<<f, fsys[f]>> : f \in matched}, err |-> "nil",
              reads |-> matched]

\* CachedSite.GetCachedTemplate: the template cached for the key, or nil.
GetCachedTemplate(cache, key) ==
    IF key \in DOMAIN cache THEN cache[key] ELSE NilTemplate

\* CachedSite.SetCachedTemplate: s.templateCache[key] = tmpl.
SetCachedTemplate(cache, key, t) ==
    [k \in (DOMAIN cache) \cup {key} |-> IF k = key THEN t ELSE cache[k]]

\* getTemplate without the comparison of the needed paths with the names
\* in the cached template.
CacheUsableUnchecked(cached, tmplPaths) == TRUE

\* getTemplate, lines 416-427: every needed path is the Name() of one of
\* cached.Templates().
CacheUsable(cached, tmplPaths) ==
    \A i \in DOMAIN tmplPaths : tmplPaths[i] \in TemplateNames(cached)

\* getTemplate, lines 404-451, for Site s and Page p: the template, the
\* error, the template cache afterwards, what GetCachedTemplate returned
\* and the files that were read.
getTemplate(s, p, cache, fsys) ==
    LET cached == IF s.cacher THEN GetCachedTemplate(cache, p.key)
                  ELSE NilTemplate
        parsed == parseTemplates(fsys, p.templates)
    IN  IF Len(p.templates) < 1
        THEN [tmpl |-> NilTemplate, err |-> "ErrNoTemplatePath",
              cache |-> cache, lookup |-> NilTemplate, reads |-> {}]
        ELSE IF cached # NilTemplate /\ CacheUsable(cached, p.templates)
        THEN [tmpl |-> cached, err |-> "nil", cache |-> cache,
              lookup |-> cached, reads |-> {}]
        ELSE IF parsed.err # "nil"
        THEN [tmpl |-> NilTemplate, err |-> parsed.err, cache |-> cache,
              lookup |-> cached, reads |-> parsed.reads]
        ELSE [tmpl |-> parsed.tmpl, err |-> "nil",
              cache |-> IF s.cacher
                        THEN SetCachedTemplate(cache, p.key, parsed.tmpl)
                        ELSE cache,
              lookup |-> cached, reads |-> parsed.reads]

-----------------------------------------------------------------------------
(* Render: sites, pages and render options.                                *)

\* A resource declared by a page below.
PageResource(type, path, linkCalc) ==
    [type |-> type, path |-> path, attrs |-> 0, Type |-> 0,
     PlaceInFooter |-> FALSE, DisableImplicitOrdering |-> FALSE, linkCalc |-> linkCalc,
     inlineCalc |-> NilCalculator]

\* A component declaring the CSS links and the inline CSS given.
PageComponent(links, inlines) ==
    [LinkCSS |-> links, EmbedCSS |-> inlines, LinkJS |-> <<>>, EmbedJS |-> <<>>]

\* A Page: its Key, the template paths of getComponentTemplatePaths, its
\* ExecutedTemplate, whether executing that template fails after part of
\* its output, the components of getRecursiveComponents (the page itself
\* first) and, for each of them, the options of its ConfigureRender.
PageOf(key, templates, execFails, comps, configures) ==
    [key |-> key, templates |-> templates, executed |-> "base.tmpl",
     execFails |-> execFails, components |-> comps, configures |-> configures]

\* No page: the value of `page` before Render is called.
NoPage == PageOf("", <<>>, FALSE, <<PageComponent(<<>>, <<>>)>>, <<<<>>>>)

\* part_009, CachedSiteFoo; CachedSiteBar with and without IncludeBaz: two
\* pages of one Key, the second needing one more template.
FooPage ==
    PageOf("foo.tmpl", <<"base.tmpl", "foo.tmpl">>, FALSE,
           <<PageComponent(<<>>, <<>>)>>, <<<<>>>>)

FooBazPage ==
    PageOf("foo.tmpl", <<"base.tmpl", "foo.tmpl", "baz.tmpl">>, FALSE,
           <<PageComponent(<<>>, <<>>)>>, <<<<>>>>)

\* A page whose Templates() returns a pattern (render.go 24-26).
PatternPage ==
    PageOf("all", <<AnyFile>>, FALSE, <<PageComponent(<<>>, <<>>)>>, <<<<>>>>)

\* A page naming a template file that does not exist.
MissingFilePage ==
    PageOf("missing", <<"base.tmpl", "missing.tmpl">>, FALSE,
           <<PageComponent(<<>>, <<>>)>>, <<<<>>>>)

\* A page whose layout component declares two CSS links, each to be loaded
\* before the other.
CyclePage ==
    PageOf("cycle", <<"base.tmpl">>, FALSE,
           <<PageComponent(<<>>, <<>>),
             PageComponent(
               <<PageResource("CSSLink", 1, [on |-> 2, rel |-> ResourceRelationshipBefore]),
                 PageResource("CSSLink", 2, [on |-> 1, rel |-> ResourceRelationshipBefore])>>,
               <<>>)>>,
           <<<<>>, <<>>>>)

\* A page embedding inline CSS whose TemplatePath is empty.
EmptyPathPage ==
    PageOf("inline", <<"base.tmpl">>, FALSE,
           <<PageComponent(<<>>, <<PageResource("CSSInline", 0, NilCalculator)>>)>>,
           <<<<>>>>)

\* A page with a CSS link and inline CSS.
StyledPage ==
    PageOf("styled", <<"base.tmpl">>, FALSE,
           <<PageComponent(<<PageResource("CSSLink", 1, NilCalculator)>>,
                           <<PageResource("CSSInline", 2, NilCalculator)>>)>>,
           <<<<>>>>)

\* The lists of options a ConfigureRender returns here: none, or one
\* RenderOptionDisablePageBuffering(disable).
OptionLists == {<<>>, <<TRUE>>, <<FALSE>>}

\* example_error_test.go: pages whose template fails to execute in the
\* middle ({{ .ImaginaryData }}); the page and its layout component may
\* each be a RenderConfigurer.
BrokenPages ==
    {PageOf("broken", <<"base.tmpl">>, TRUE,
            <<PageComponent(<<>>, <<>>), PageComponent(<<>>, <<>>)>>,
            <<pageOptions, layoutOptions>>) :
        pageOptions \in OptionLists, layoutOptions \in OptionLists}

Pages ==
    {FooPage, FooBazPage, PatternPage, MissingFilePage, CyclePage,
     EmptyPathPage, StyledPage} \cup BrokenPages

\* The page a ServerErrorPager returns: one that renders, or one that uses
\* the layout of CyclePage.
ErrorPage == PageOf("error", <<"base.tmpl">>, FALSE,
                    <<PageComponent(<<>>, <<>>)>>, <<<<>>>>)

CycleErrorPage == [CyclePage EXCEPT !.key = "error"]

\* A Site: whether it is a TemplateCacher (a CachedSite is), whether it is
\* a ServerErrorPager and the page it then returns, and the options of its
\* ConfigureRender.
Sites ==
    [cacher : BOOLEAN, pager : {TRUE}, errorPage : {ErrorPage, CycleErrorPage},
     configure : OptionLists]
    \cup [cacher : BOOLEAN, pager : {FALSE}, errorPage : {NoPage},
          configure : OptionLists]

\* renderOptionFunc.setRenderOpts for RenderOptionDisablePageBuffering.
setRenderOpts(o, disable) == [o EXCEPT !.disablePageBuffering = disable]

\* `for _, opt := range renderConfigurer.ConfigureRender()`
RECURSIVE ConfigureRender(_, _)
ConfigureRender(o, options) ==
    IF options = <<>> THEN o
    ELSE ConfigureRender(setRenderOpts(o, Head(options)), Tail(options))

RECURSIVE ConfigureAll(_, _)
ConfigureAll(o, configurers) ==
    IF configurers = <<>> THEN o
    ELSE ConfigureAll(ConfigureRender(o, Head(configurers)), Tail(configurers))

\* renderOpts{}
DefaultOpts == [disablePageBuffering |-> FALSE]

\* Render with the configurers asked in the opposite order: the components
\* from the last to the first, then the Page, then the Site.
RenderOptsReversed(s, p) ==
    ConfigureAll(DefaultOpts,
                 [i \in 1..Len(p.configures) |->
                    p.configures[Len(p.configures) + 1 - i]]
                 \o <<p.configures[1], s.configure>>)

\* Render, lines 164-187: the options of the Site, of the Page, and of each
\* of getRecursiveComponents(page), whose first element is the page.
RenderOpts(s, p) ==
    ConfigureAll(DefaultOpts, <<s.configure, p.configures[1]>> \o p.configures)

-----------------------------------------------------------------------------
(* Render: its steps.                                                      *)

\* The previous call of Render: whether there was one, its page, what it
\* wrote and whether it rendered the page.
NoCall == [called |-> FALSE, page |-> NoPage, writer |-> <<>>, ok |-> FALSE]

\* What is written for a page: the template it was executed from, the
\* rendered resources it was given, and whether the execution was complete.
PageOutput(p, t, resources, complete) ==
    [from |-> p.key, complete |-> complete, body |-> t, resources |-> resources]

\* out.Write([]byte("Server error."))
ServerErrorText ==
    [from |-> "Server error.", complete |-> TRUE, body |-> NilTemplate,
     resources |-> [CSS |-> <<>>, HeaderJS |-> <<>>, FooterJS |-> <<>>]]

\* basicRender has returned to Render.
Returned == {"returned", "failed", "resourceError"}

\* Render is called for one of the pages, and once more after it returns;
\* lines 148-190: the options are applied and basicRender is called.
Render ==
    /\ pc = "idle"
    /\ ~lastCall.called
    /\ \E p \in Pages :
         /\ page' = p
         /\ req' = p
         /\ opts' = RenderOpts(site, p)
    /\ lastCall' = IF page = NoPage THEN NoCall
               ELSE [called |-> TRUE, page |-> page, writer |-> writer,
                     ok |-> pageErr = "nil"]
    /\ phase' = "page"
    /\ writer' = <<>>
    /\ pageErr' = "nil"
    /\ pc' = "getTemplate"
    /\ UNCHANGED <<site, files, templateCache, tmpl, lookup, reads>>
    /\ UNCHANGED <<components, cur, graphs, noParents, results, ordered, err, out>>
    /\ UNCHANGED <<resourceCache, otherVars>>

\* Between two calls of Render a template file is changed.
ChangeFile ==
    /\ pc = "idle"
    /\ page # NoPage
    /\ ~lastCall.called
    /\ \E f \in TemplateFiles :
         /\ files[f] = 1
         /\ files' = [files EXCEPT ![f] = 2]
    /\ UNCHANGED <<site, page, req, phase, opts, templateCache, tmpl, lookup,
                   reads, writer, pageErr, lastCall>>
    /\ UNCHANGED graphVars
    /\ UNCHANGED <<resourceCache, otherVars>>

\* basicRender, lines 232-237: getTemplate; on an error basicRender returns
\* it, otherwise it goes on to buildGraphs for the components.
GetTemplate ==
    /\ pc = "getTemplate"
    /\ LET got == getTemplate(site, req, templateCache, files)
       IN  /\ tmpl' = got.tmpl
           /\ templateCache' = got.cache
           /\ lookup' = got.lookup
           /\ reads' = got.reads
           /\ err' = got.err
           /\ pc' = IF got.err = "nil" THEN "collect" ELSE "returned"
    /\ components' = req.components
    /\ cur' = "css"
    /\ graphs' = EmptyGraphs
    /\ noParents' = <<>>
    /\ results' = <<>>
    /\ ordered' = NoOrder
    /\ out' = [CSS |-> <<>>, HeaderJS |-> <<>>, FooterJS |-> <<>>]
    /\ UNCHANGED <<site, page, req, phase, opts, files, writer, pageErr, lastCall>>
    /\ UNCHANGED <<resourceCache, otherVars>>

\* basicRender with the page always executed into the output.
BufferedNever(o) == FALSE

\* basicRender, lines 342-345: `if !opts.disablePageBuffering`
Buffered(o) == ~o.disablePageBuffering

\* basicRender, lines 340-364: the page template is executed, into a
\* buffer that is copied to the output once the execution has succeeded,
\* or into the output itself when page buffering is disabled.  Executing
\* a template that is not defined fails before anything is written.
ExecutePage ==
    /\ pc = "done"
    /\ IF req.executed \notin TemplateNames(tmpl)
       THEN /\ err' = "ErrExecute"
            /\ UNCHANGED writer
       ELSE IF req.execFails
       THEN /\ err' = "ErrExecute"
            /\ writer' = IF Buffered(opts) THEN writer
                         ELSE Append(writer, PageOutput(req, tmpl, out, FALSE))
       ELSE /\ err' = "nil"
            /\ writer' = Append(writer, PageOutput(req, tmpl, out, TRUE))
    /\ pc' = "returned"
    /\ UNCHANGED <<components, cur, graphs, noParents, results, ordered, out>>
    /\ UNCHANGED <<site, page, req, phase, opts, files, templateCache, tmpl,
                   lookup, reads, pageErr, lastCall>>
    /\ UNCHANGED <<resourceCache, otherVars>>

\* Render, lines 192-195 and 213-221: basicRender returned no error, or the
\* server error page could not be rendered either, which is logged; Render
\* returns.
RenderReturn ==
    /\ pc \in Returned
    /\ err = "nil" \/ phase = "errorPage"
    /\ pc' = "idle"
    /\ UNCHANGED <<components, cur, graphs, noParents, results, ordered, err, out>>
    /\ UNCHANGED renderVars
    /\ UNCHANGED <<resourceCache, otherVars>>

\* Render, lines 197-214: the requested page could not be rendered and the
\* Site is a ServerErrorPager; basicRender is called for its page, with
\* the same writer and options.
RenderServerErrorPage ==
    /\ pc \in Returned
    /\ err # "nil"
    /\ phase = "page"
    /\ site.pager
    /\ pageErr' = err
    /\ phase' = "errorPage"
    /\ req' = site.errorPage
    /\ pc' = "getTemplate"
    /\ UNCHANGED <<components, cur, graphs, noParents, results, ordered, err, out>>
    /\ UNCHANGED <<site, page, opts, files, templateCache, tmpl, lookup, reads,
                   writer, lastCall>>
    /\ UNCHANGED <<resourceCache, otherVars>>

\* Render, lines 197-228: the requested page could not be rendered and the
\* Site is no ServerErrorPager; "Server error." is written.
WriteServerError ==
    /\ pc \in Returned
    /\ err # "nil"
    /\ phase = "page"
    /\ ~site.pager
    /\ pageErr' = err
    /\ writer' = Append(writer, ServerErrorText)
    /\ pc' = "idle"
    /\ UNCHANGED <<components, cur, graphs, noParents, results, ordered, err, out>>
    /\ UNCHANGED <<site, page, req, phase, opts, files, templateCache, tmpl,
                   lookup, reads, lastCall>>
    /\ UNCHANGED <<resourceCache, otherVars>>

NextRender ==
    \/ Render
    \/ ChangeFile
    \/ GetTemplate
    \/ Collect
    \/ CalculateRelations
    \/ WalkLoop
    \/ WalkReturn
    \/ RenderResources
    \/ ExecutePage
    \/ RenderReturn
    \/ RenderServerErrorPage
    \/ WriteServerError

\* The state without a call of Render: the values of the variables of
\* Render while only basicRender's graph steps are looked at.
\* A sync.RWMutex nobody holds.
Unlocked == [readers |-> {}, writer |-> 0]

\* No uses-tree is expanded and no goroutine runs beside the caller.
NoOther ==
    /\ uses = <<>>
    /\ goroutines = <<>>
    /\ templateCacheMu = Unlocked
    /\ resourceCacheMu = Unlocked

NoRender ==
    /\ site = [cacher |-> FALSE, pager |-> FALSE, errorPage |-> NoPage,
               configure |-> <<>>]
    /\ page = NoPage
    /\ req = NoPage
    /\ phase = "page"
    /\ opts = DefaultOpts
    /\ files = [f \in TemplateFiles |-> 1]
    /\ templateCache = <<>>
    /\ tmpl = NilTemplate
    /\ lookup = NilTemplate
    /\ reads = {}
    /\ writer = <<>>
    /\ pageErr = "nil"
    /\ lastCall = NoCall
    /\ resourceCache = <<>>
    /\ NoOther

\* A Site with its template files, before Render is called.
InitRender ==
    /\ site \in Sites
    /\ page = NoPage
    /\ req = NoPage
    /\ phase = "page"
    /\ opts = DefaultOpts
    /\ files = [f \in TemplateFiles |-> 1]
    /\ templateCache = <<>>
    /\ tmpl = NilTemplate
    /\ lookup = NilTemplate
    /\ reads = {}
    /\ writer = <<>>
    /\ pageErr = "nil"
    /\ lastCall = NoCall
    /\ components = NoPage.components
    /\ pc = "idle"
    /\ cur = "css"
    /\ graphs = EmptyGraphs
    /\ noParents = <<>>
    /\ results = <<>>
    /\ ordered = NoOrder
    /\ err = "nil"
    /\ out = [CSS |-> <<>>, HeaderJS |-> <<>>, FooterJS |-> <<>>]
    /\ resourceCache = <<>>
    /\ NoOther

SpecRender == InitRender /\ [][NextRender]_vars

-----------------------------------------------------------------------------
(* The inputs: the walked component list and what each capability of each  *)
(* component returns.  A component list is drawn as a list of at most      *)
(* MaxResources declarations, each naming its component, its capability    *)
(* and the resource declared, in the order buildGraphs reads them.         *)

TypeOf(cap) ==
    CASE cap = "LinkCSS" -> "CSSLink"
      [] cap = "EmbedCSS" -> "CSSInline"
      [] cap = "LinkJS" -> "JSLink"
      [] cap = "EmbedJS" -> "JSInline"

CapIndex(cap) ==
    CASE cap = "LinkCSS" -> 1
      [] cap = "EmbedCSS" -> 2
      [] cap = "LinkJS" -> 3
      [] cap = "EmbedJS" -> 4

\* The declarations of component c and capability cap, as the slice the
\* capability returns.
SliceOf(decls, c, cap) ==
    LET Mine(d) == d.comp = c /\ d.cap = cap
        mine == SelectSeq(decls, Mine)
    IN  [i \in 1..Len(mine) |->
           [type |-> TypeOf(cap),
            path |-> mine[i].res.path,
            attrs |-> mine[i].res.attrs,
            Type |-> mine[i].res.Type,
            PlaceInFooter |-> mine[i].res.PlaceInFooter,
            DisableImplicitOrdering |-> mine[i].res.DisableImplicitOrdering,
            linkCalc |-> mine[i].res.linkCalc,
            inlineCalc |-> mine[i].res.inlineCalc]]

\* The component list of a declaration list: the page itself and the
\* components it uses, as getRecursiveComponents returns them.
ComponentsOf(decls) ==
    LET count == IF decls = <<>> THEN 1 ELSE decls[Len(decls)].comp
    IN  [c \in 1..count |->
           [LinkCSS |-> SliceOf(decls, c, "LinkCSS"),
            EmbedCSS |-> SliceOf(decls, c, "EmbedCSS"),
            LinkJS |-> SliceOf(decls, c, "LinkJS"),
            EmbedJS |-> SliceOf(decls, c, "EmbedJS")]]

\* Lists of n declarations in reading order: component by component, and
\* within a component LinkCSS, EmbedCSS, LinkJS, EmbedJS.  Components that
\* declare nothing add nothing to a graph and are left out.
DeclLists(maxComps, caps, Options, n) ==
    LET Slots == (1..maxComps) \X caps
        InOrder == {ss \in [1..n -> Slots] :
                      /\ n > 0 => ss[1][1] = 1
                      /\ \A i \in 1..(n - 1) :
                           \/ ss[i + 1][1] = ss[i][1] + 1
                           \/ /\ ss[i + 1][1] = ss[i][1]
                              /\ CapIndex(ss[i][2]) <= CapIndex(ss[i + 1][2])}
    IN  {[i \in 1..n |-> [comp |-> ss[i][1], cap |-> ss[i][2], res |-> rs[i]]] :
           ss \in InOrder, rs \in [1..n -> Options]}

\* The fields of a declared resource, each drawn from a set.
ResourceOptions(attrs, footers, dios, linkCalcs, inlineCalcs) ==
    [path : 1..MaxKey, attrs : attrs, Type : {0}, PlaceInFooter : footers,
     DisableImplicitOrdering : dios, linkCalc : linkCalcs, inlineCalc : inlineCalcs]

\* The state when basicRender reaches buildGraphs with the component list
\* of one of the declaration lists in DeclSet.
InitFrom(DeclSet) ==
    /\ \E decls \in DeclSet : components = ComponentsOf(decls)
    /\ pc = "collect"
    /\ cur = "css"
    /\ graphs = EmptyGraphs
    /\ noParents = <<>>
    /\ results = <<>>
    /\ ordered = NoOrder
    /\ err = "nil"
    /\ out = [CSS |-> <<>>, HeaderJS |-> <<>>, FooterJS |-> <<>>]
    /\ NoRender

\* Every list of at most maxDecls declarations over the given capabilities
\* and options.
InitWith(maxComps, caps, Options, maxDecls) ==
    \E n \in 0..maxDecls : InitFrom(DeclLists(maxComps, caps, Options, n))

\* One component whose LinkCSS, or whose EmbedCSS, returns resources with
\* and without DisableImplicitOrdering.
InitImplicit ==
    \E cap \in {"LinkCSS", "EmbedCSS"} :
        InitWith(1, {cap},
                 ResourceOptions({0}, {FALSE}, BOOLEAN, {NilCalculator}, {NilCalculator}),
                 MaxResources)

\* A component tree whose components link and embed CSS.
InitTree ==
    InitWith(MaxComponents, {"LinkCSS", "EmbedCSS"},
             {r \in ResourceOptions({0}, {FALSE}, {FALSE},
                                    {NilCalculator}, {NilCalculator}) : r.path < MaxKey},
             MaxResources)

\* A component tree whose links differ in their rendering attributes.
InitAttrs ==
    InitWith(MaxComponents, {"LinkCSS"},
             ResourceOptions({0, 1}, {FALSE}, {FALSE}, {NilCalculator}, {NilCalculator}),
             MaxResources - 1)

\* One component whose links carry relation calculators, some of the links
\* declared twice.
InitRepeatedRelations ==
    InitWith(1, {"LinkCSS"},
             {r \in ResourceOptions({0}, {FALSE}, {FALSE},
                                    {NilCalculator} \cup Calculators, {NilCalculator}) :
                r.path < MaxKey /\ r.linkCalc.on < MaxKey},
             MaxResources - 1)

\* Sequences of n different paths, ascending or descending.
MonotonePaths(n) ==
    {ps \in [1..n -> 1..MaxKey] :
        \/ \A i \in 1..(n - 1) : ps[i] < ps[i + 1]
        \/ \A i \in 1..(n - 1) : ps[i] > ps[i + 1]}

\* One component whose LinkCSS returns links of different Hrefs, each with
\* or without a relation calculator for links.
RelationLists(n) ==
    {[i \in 1..n |->
        [comp |-> 1, cap |-> "LinkCSS",
         res |-> [path |-> ps[i], attrs |-> 0, Type |-> 0, PlaceInFooter |-> FALSE,
                  DisableImplicitOrdering |-> FALSE,
                  linkCalc |-> cs[i], inlineCalc |-> NilCalculator]]] :
       ps \in MonotonePaths(n), cs \in [1..n -> {NilCalculator} \cup Calculators]}

InitRelations == \E n \in 0..MaxResources : InitFrom(RelationLists(n))

\* A resource with at most one of its two relation calculators set.
OneCalculator ==
    ResourceOptions({0}, {FALSE}, {FALSE}, {NilCalculator}, {NilCalculator})
    \cup ResourceOptions({0}, {FALSE}, {FALSE}, Calculators, {NilCalculator})
    \cup ResourceOptions({0}, {FALSE}, {FALSE}, {NilCalculator}, Calculators)

\* One component that links at most one CSSLink and embeds at most one
\* CSSInline, each with at most one relation calculator.
KindLists ==
    LET Link(r) == [comp |-> 1, cap |-> "LinkCSS", res |-> r]
        Inline(r) == [comp |-> 1, cap |-> "EmbedCSS", res |-> r]
    IN  {<<Link(r)>> : r \in OneCalculator}
        \cup {<<Inline(r)>> : r \in OneCalculator}
        \cup {<<Link(r), Inline(q)>> : r \in OneCalculator, q \in OneCalculator}

InitKinds == InitFrom(KindLists)

\* A resource with both relation calculators set, to the same function.
BothCalculators ==
    {r \in ResourceOptions({0}, {FALSE}, {FALSE}, Calculators, Calculators) :
        r.linkCalc = r.inlineCalc}

\* One component that links at most one JSLink and embeds at most one
\* JSInline, for either placement, each with no, one or both relation
\* calculators.
JSKindLists ==
    LET Options == {[r EXCEPT !.PlaceInFooter = f] :
                      r \in {q \in OneCalculator \cup BothCalculators :
                               /\ q.path < MaxKey
                               /\ q.linkCalc.on < MaxKey
                               /\ q.inlineCalc.on < MaxKey},
                      f \in BOOLEAN}
        Link(r) == [comp |-> 1, cap |-> "LinkJS", res |-> r]
        Inline(r) == [comp |-> 1, cap |-> "EmbedJS", res |-> r]
    IN  {<<Link(r)>> : r \in Options}
        \cup {<<Inline(r)>> : r \in Options}
        \cup {<<Link(r), Inline(q)>> : r \in Options, q \in Options}

InitJSKinds == InitFrom(JSKindLists)

\* One component whose resources may have an empty identity: an empty
\* Href, or a TemplatePath that is empty once trimmed.
InitEmptyPath ==
    InitWith(1, {"LinkCSS", "EmbedCSS", "EmbedJS"},
             {[r EXCEPT !.path = r.path - 1] :
                r \in {q \in ResourceOptions({0}, {FALSE}, {FALSE},
                                             {NilCalculator}, {NilCalculator}) :
                         q.path < MaxKey}},
             MaxResources - 1)

\* One component that links and embeds JavaScript for either placement.
InitJS ==
    InitWith(1, {"LinkJS", "EmbedJS"},
             {r \in ResourceOptions({0}, BOOLEAN, {FALSE},
                                    {NilCalculator}, {NilCalculator}) : r.path < MaxKey},
             MaxResources)

\* Two components, each linking one style sheet with or without a relation
\* calculator: a layout and a child, in either order.
InitCrossRelations ==
    InitFrom({decls \in DeclLists(2, {"LinkCSS"},
                                  {r \in ResourceOptions({0}, {FALSE}, {FALSE},
                                                         {NilCalculator} \cup Calculators,
                                                         {NilCalculator}) :
                                     r.path < MaxKey /\ r.linkCalc.on < MaxKey},
                                  2) :
                decls[2].comp = 2})

Init ==
    \/ InitImplicit
    \/ InitTree
    \/ InitAttrs
    \/ InitRepeatedRelations
    \/ InitRelations
    \/ InitKinds
    \/ InitJS
    \/ InitJSKinds
    \/ InitEmptyPath
    \/ InitCrossRelations

Spec == Init /\ [][Next]_vars

\* One component whose LinkCSS returns links of ascending Hrefs, each with
\* or without a relation calculator: graphs with and without cycles, and
\* nodes with several dependencies.
InitWalk ==
    \E n \in 0..MaxResources :
        InitFrom({decls \in RelationLists(n) :
                    \A i \in 1..n : decls[i].res.path = i})

\* walkGraph is a sequential loop: a step that can be taken is taken.
SpecWalk == InitWalk /\ [][Next]_vars /\ WF_vars(Next)

-----------------------------------------------------------------------------
(* getRecursiveComponents: the components of a page's uses-tree.           *)

\* number of components of a uses-tree, and of components one call of
\* UseComponents returns
MaxUses == 3

\* The uses-trees: uses[c] is what UseComponents of component c returns, an
\* empty list for a component that is no ComponentUser. The tree is finite
\* and acyclic: the components are numbered so that a component uses only
\* components of a higher number; a component may be used more than once.
\* UsesOf(c) is what UseComponents of component c may return, UsesFrom(c)
\* the choices for the components from c on.
UsesOf(c) == UNION {[1..n -> (c + 1)..MaxUses] : n \in 0..MaxUses}

RECURSIVE UsesFrom(_)
UsesFrom(c) ==
    IF c > MaxUses THEN {<<>>}
    ELSE {[k \in c..MaxUses |-> IF k = c THEN used ELSE rest[k]] :
            used \in UsesOf(c), rest \in UsesFrom(c + 1)}

UsesTrees == UsesFrom(1)

\* getRecursiveComponents appending the component after its children.
RECURSIVE getRecursiveComponentsPostOrder(_, _)
getRecursiveComponentsPostOrder(u, component) ==
    LET RECURSIVE Children(_, _)
        Children(res, i) ==
            IF i > Len(u[component]) THEN res
            ELSE Children(res \o getRecursiveComponentsPostOrder(u, u[component][i]),
                          i + 1)
    IN  Children(<<>>, 1) \o <<component>>

\* getRecursiveComponents, render.go 453-463: results starts as the
\* component itself; for every child UseComponents returns, in order, the
\* result of the recursive call is appended.
RECURSIVE getRecursiveComponents(_, _)
getRecursiveComponents(u, component) ==
    LET RECURSIVE Children(_, _)
        Children(res, i) ==
            IF i > Len(u[component]) THEN res
            ELSE Children(res \o getRecursiveComponents(u, u[component][i]), i + 1)
    IN  Children(<<component>>, 1)

\* Render, line 180: `components := getRecursiveComponents(ctx, page)`, for
\* the page or one of the components of its tree.
GetRecursiveComponents ==
    /\ pc = "uses"
    /\ \E root \in 1..MaxUses : components' = getRecursiveComponents(uses, root)
    /\ pc' = "expanded"
    /\ UNCHANGED <<cur, graphs, noParents, results, ordered, err, out>>
    /\ UNCHANGED <<renderVars, resourceCache, uses, goroutines,
                   templateCacheMu, resourceCacheMu>>

NextUses == GetRecursiveComponents

\* A page with one of the uses-trees, before Render lists its components.
InitUses ==
    /\ uses \in UsesTrees
    /\ components = <<>>
    /\ pc = "uses"
    /\ cur = "css"
    /\ graphs = EmptyGraphs
    /\ noParents = <<>>
    /\ results = <<>>
    /\ ordered = NoOrder
    /\ err = "nil"
    /\ out = [CSS |-> <<>>, HeaderJS |-> <<>>, FooterJS |-> <<>>]
    /\ site = [cacher |-> FALSE, pager |-> FALSE, errorPage |-> NoPage,
               configure |-> <<>>]
    /\ page = NoPage
    /\ req = NoPage
    /\ phase = "page"
    /\ opts = DefaultOpts
    /\ files = [f \in TemplateFiles |-> 1]
    /\ templateCache = <<>>
    /\ tmpl = NilTemplate
    /\ lookup = NilTemplate
    /\ reads = {}
    /\ writer = <<>>
    /\ pageErr = "nil"
    /\ lastCall = NoCall
    /\ resourceCache = <<>>
    /\ goroutines = <<>>
    /\ templateCacheMu = Unlocked
    /\ resourceCacheMu = Unlocked

SpecUses == InitUses /\ [][NextUses]_vars

-----------------------------------------------------------------------------
(* Scripts with a type attribute.                                          *)

\* A JSLink or JSInline with or without a Type.
TypedScripts ==
    {[r EXCEPT !.Type = t] :
       r \in {q \in ResourceOptions({0}, {FALSE}, {FALSE},
                                    {NilCalculator}, {NilCalculator}) :
                q.path < MaxKey},
       t \in 0..(MaxKey - 1)}

\* The resource caches an earlier render of a page with one script leaves
\* in a CachedSite.
EarlierCaches(s) ==
    {<<>>} \cup
    {ParseAll(s, SliceOf(<<[comp |-> 1, cap |-> cap, res |-> r]>>, 1, cap),
              <<>>, NoTemplates).cache :
       cap \in {"LinkJS", "EmbedJS"}, r \in TypedScripts}

\* One component that links and embeds up to two scripts, rendered for a
\* Site that is a ResourceCacher, before or after an earlier render, or
\* for a Site that is not.
InitTypes ==
    /\ \E n \in 0..2 :
         \E decls \in DeclLists(1, {"LinkJS", "EmbedJS"}, TypedScripts, n) :
            components = ComponentsOf(decls)
    /\ pc = "collect"
    /\ cur = "css"
    /\ graphs = EmptyGraphs
    /\ noParents = <<>>
    /\ results = <<>>
    /\ ordered = NoOrder
    /\ err = "nil"
    /\ out = [CSS |-> <<>>, HeaderJS |-> <<>>, FooterJS |-> <<>>]
    /\ \E cacher \in BOOLEAN :
         /\ site = [cacher |-> cacher, pager |-> FALSE, errorPage |-> NoPage,
                    configure |-> <<>>]
         /\ resourceCache \in EarlierCaches(site)
    /\ page = NoPage
    /\ req = NoPage
    /\ phase = "page"
    /\ opts = DefaultOpts
    /\ files = [f \in TemplateFiles |-> 1]
    /\ templateCache = <<>>
    /\ tmpl = NilTemplate
    /\ lookup = NilTemplate
    /\ reads = {}
    /\ writer = <<>>
    /\ pageErr = "nil"
    /\ lastCall = NoCall
    /\ NoOther

SpecTypes == InitTypes /\ [][Next]_vars

-----------------------------------------------------------------------------
(* Renders running at the same time for one CachedSite.                    *)

\* The goroutines that call Render at the same time.
Goroutines == {1, 2}

\* The keys of the pages they render, and the scripts the pages link.
ConcurrentPages == {"foo", "baz"}

ConcurrentScripts ==
    {[PageResource("JSLink", 1, NilCalculator) EXCEPT !.Type = t] : t \in {0, 1}}

\* A goroutine entering getTemplate for its page: pc is its place in the
\* cache access it is in, cache the cache accessed ("template" in
\* getTemplate, "resource" in parseResource), missed the caches that had
\* no value for it, tmpl and body what it got or made.
Entering(key, res) ==
    [pc |-> "RLock", cache |-> "template", page |-> key, res |-> res,
     missed |-> {}, tmpl |-> NilTemplate, body |-> NoBody]

\* s.templateCacheMu or s.resourceCacheMu.
Mu(cache) == IF cache = "template" THEN templateCacheMu ELSE resourceCacheMu

SetMu(cache, mu) ==
    IF cache = "template"
    THEN templateCacheMu' = mu /\ UNCHANGED resourceCacheMu
    ELSE resourceCacheMu' = mu /\ UNCHANGED templateCacheMu

\* sync.RWMutex.RLock returns when no goroutine holds the write lock.
CanRLock(mu) == mu.writer = 0

\* A Lock that does not wait for the readers.
CanLockBesideReaders(mu) == mu.writer = 0

\* sync.RWMutex.Lock returns when no goroutine holds the lock for reading
\* or writing.
CanLock(mu) == mu.writer = 0 /\ mu.readers = {}

\* What the concurrent renders leave alone.
restVars == <<graphVars, site, page, req, phase, opts, files, tmpl, lookup,
              reads, writer, pageErr, lastCall, uses>>

\* `s.templateCacheMu.RLock()` in GetCachedTemplate, `s.resourceCacheMu.RLock()`
\* in GetCachedResource.
RLock ==
    \E g \in Goroutines :
        LET self == goroutines[g]
        IN  /\ self.pc = "RLock"
            /\ CanRLock(Mu(self.cache))
            /\ SetMu(self.cache, [Mu(self.cache) EXCEPT !.readers = @ \cup {g}])
            /\ goroutines' = [goroutines EXCEPT ![g].pc = "read"]
            /\ UNCHANGED <<templateCache, resourceCache, restVars>>

\* `res, ok := s.templateCache[key]`, `res, ok := s.resourceCache[key]`
ReadCache ==
    \E g \in Goroutines :
        LET self == goroutines[g]
            cachedTmpl == GetCachedTemplate(templateCache, self.page)
            cachedBody == GetCachedResource(resourceCache, getKey(self.res))
        IN  /\ self.pc = "read"
            /\ goroutines' =
                 IF self.cache = "template"
                 THEN [goroutines EXCEPT
                         ![g].tmpl = cachedTmpl,
                         ![g].missed = IF cachedTmpl = NilTemplate
                                       THEN @ \cup {"template"} ELSE @,
                         ![g].pc = "RUnlock"]
                 ELSE [goroutines EXCEPT
                         ![g].body = cachedBody,
                         ![g].missed = IF cachedBody = NoBody
                                       THEN @ \cup {"resource"} ELSE @,
                         ![g].pc = "RUnlock"]
            /\ UNCHANGED <<templateCache, resourceCache, templateCacheMu,
                           resourceCacheMu, restVars>>

\* The deferred RUnlock; then getTemplate returns a cached template that
\* has the page's templates and parses otherwise, and parseResource calls
\* getJS when it has no body and goes on to SetCachedResource.
RUnlock ==
    \E g \in Goroutines :
        LET self == goroutines[g]
        IN  /\ self.pc = "RUnlock"
            /\ SetMu(self.cache, [Mu(self.cache) EXCEPT !.readers = @ \ {g}])
            /\ goroutines' =
                 IF self.cache = "template"
                 THEN IF /\ self.tmpl # NilTemplate
                         /\ CacheUsable(self.tmpl, <<self.page>>)
                      THEN [goroutines EXCEPT ![g].pc = "RLock",
                                              ![g].cache = "resource"]
                      ELSE [goroutines EXCEPT ![g].pc = "compute"]
                 ELSE IF self.body = NoBody
                      THEN [goroutines EXCEPT ![g].pc = "compute"]
                      ELSE [goroutines EXCEPT ![g].pc = "Lock"]
            /\ UNCHANGED <<templateCache, resourceCache, restVars>>

\* parseTemplates in getTemplate: a new *template.Template, told from the
\* one another goroutine parses by the goroutine in place of the content;
\* getFunc in parseResource: the body of the resource.
Compute ==
    \E g \in Goroutines :
        LET self == goroutines[g]
        IN  /\ self.pc = "compute"
            /\ goroutines' =
                 IF self.cache = "template"
                 THEN [goroutines EXCEPT ![g].tmpl = {<<self.page, g>>},
                                         ![g].pc = "Lock"]
                 ELSE [goroutines EXCEPT ![g].body = getBody(self.res),
                                         ![g].pc = "Lock"]
            /\ UNCHANGED <<templateCache, resourceCache, templateCacheMu,
                           resourceCacheMu, restVars>>

\* `s.templateCacheMu.Lock()` in SetCachedTemplate, `s.resourceCacheMu.Lock()`
\* in SetCachedResource.
Lock ==
    \E g \in Goroutines :
        LET self == goroutines[g]
        IN  /\ self.pc = "Lock"
            /\ CanLock(Mu(self.cache))
            /\ SetMu(self.cache, [Mu(self.cache) EXCEPT !.writer = g])
            /\ goroutines' = [goroutines EXCEPT ![g].pc = "write"]
            /\ UNCHANGED <<templateCache, resourceCache, restVars>>

\* `s.templateCache[key] = tmpl`, `s.resourceCache[key] = resource`
WriteCache ==
    \E g \in Goroutines :
        LET self == goroutines[g]
        IN  /\ self.pc = "write"
            /\ IF self.cache = "template"
               THEN /\ templateCache' =
                         SetCachedTemplate(templateCache, self.page, self.tmpl)
                    /\ UNCHANGED resourceCache
               ELSE /\ resourceCache' =
                         SetCachedResource(resourceCache, getKey(self.res), self.body)
                    /\ UNCHANGED templateCache
            /\ goroutines' = [goroutines EXCEPT ![g].pc = "Unlock"]
            /\ UNCHANGED <<templateCacheMu, resourceCacheMu, restVars>>

\* The deferred Unlock; getTemplate returns and basicRender goes on to
\* parseResource, or parseResource parses the body and returns.
Unlock ==
    \E g \in Goroutines :
        LET self == goroutines[g]
        IN  /\ self.pc = "Unlock"
            /\ SetMu(self.cache, [Mu(self.cache) EXCEPT !.writer = 0])
            /\ goroutines' =
                 IF self.cache = "template"
                 THEN [goroutines EXCEPT ![g].pc = "RLock", ![g].cache = "resource"]
                 ELSE [goroutines EXCEPT ![g].pc = "done"]
            /\ UNCHANGED <<templateCache, resourceCache, restVars>>

NextConcurrent ==
    \/ RLock
    \/ ReadCache
    \/ RUnlock
    \/ Compute
    \/ Lock
    \/ WriteCache
    \/ Unlock

\* A new CachedSite, and two goroutines calling Render for a page each.
InitConcurrent ==
    /\ goroutines \in [Goroutines -> {Entering(key, res) :
                                        key \in ConcurrentPages,
                                        res \in ConcurrentScripts}]
    /\ templateCacheMu = Unlocked
    /\ resourceCacheMu = Unlocked
    /\ templateCache = <<>>
    /\ resourceCache = <<>>
    /\ uses = <<>>
    /\ components = <<>>
    /\ pc = "concurrent"
    /\ cur = "css"
    /\ graphs = EmptyGraphs
    /\ noParents = <<>>
    /\ results = <<>>
    /\ ordered = NoOrder
    /\ err = "nil"
    /\ out = [CSS |-> <<>>, HeaderJS |-> <<>>, FooterJS |-> <<>>]
    /\ site = [cacher |-> TRUE, pager |-> FALSE, errorPage |-> NoPage,
               configure |-> <<>>]
    /\ page = NoPage
    /\ req = NoPage
    /\ phase = "page"
    /\ opts = DefaultOpts
    /\ files = [f \in TemplateFiles |-> 1]
    /\ tmpl = NilTemplate
    /\ lookup = NilTemplate
    /\ reads = {}
    /\ writer = <<>>
    /\ pageErr = "nil"
    /\ lastCall = NoCall

SpecConcurrent == InitConcurrent /\ [][NextConcurrent]_vars

-----------------------------------------------------------------------------
(* Definitions used to state the properties.                               *)

GraphNames == {"css", "headJS", "footJS"}

\* The graphs as buildGraphs returns them for the component list.
Built == buildGraphs(components)

\* walkGraph has been called for the graph `name` and has not yet run an
\* iteration of its main loop: graphs[name] is the graph it was given.
WalkCalled(name) == pc = "walkLoop" /\ cur = name /\ results = <<>>

\* walkGraph has just returned a nil error for the graph `name`:
\* ordered[name] is what it returned and basicRender is at its next
\* statement.
Walked(name) ==
    IF name = "footJS" THEN pc = "render"
    ELSE pc = "walkLoop" /\ cur = NextGraph(name) /\ results = <<>>

\* walkGraph has returned ErrResourceCycle for the graph `name`.
Failed(name) == pc = "failed" /\ cur = name /\ err = "ErrResourceCycle"

\* u depends on v when v is in edgesFrom[u].
DependsOn(g) ==
    {e \in (1..Len(g.nodes)) \X (1..Len(g.nodes)) : e[2] \in MapGet(g.edgesFrom, e[1])}

\* The pairs (u, v) with a path of dependencies from u to v.
RECURSIVE Closure(_)
Closure(R) ==
    LET step == {<<q[1][1], q[2][2]>> : q \in {p \in R \X R : p[1][2] = p[2][1]}}
    IN  IF step \subseteq R THEN R ELSE Closure(R \cup step)

Acyclic(g) == \A e \in Closure(DependsOn(g)) : e[1] # e[2]

\* The positions at which the node g.nodes[n] occurs in seq.
Occurrences(seq, g, n) == {i \in 1..Len(seq) : seq[i] = g.nodes[n]}

\* seq lists every node of g exactly once, none before a node it depends on.
IsTopologicalOrder(seq, g) ==
    /\ Len(seq) = Len(g.nodes)
    /\ \A n \in 1..Len(g.nodes) : Cardinality(Occurrences(seq, g, n)) = 1
    /\ \A e \in DependsOn(g) :
         \A i \in Occurrences(seq, g, e[1]), j \in Occurrences(seq, g, e[2]) : j < i

\* Every sequence walkGraph can return for the graph g, whatever the sort
\* does with nodes that compare equal.
RECURSIVE WalkFrom(_, _, _)
WalkFrom(g, np, res) ==
    IF np = <<>> THEN {res}
    ELSE UNION {WalkFrom(ConsumeEdges(g, np[1]), next, Append(res, g.nodes[np[1]])) :
                  next \in LoopNoParents(g, np)}

WalkResults(g) == UNION {WalkFrom(g, np, <<>>) : np \in WalkBegin(g)}

\* The graph g with its nodes inserted in the order perm: node i of the
\* result is node perm[i] of g, with the same edges.
Reordered(g, perm) ==
    LET N == 1..Len(g.nodes)
        Relabel(m) == [i \in {j \in N : perm[j] \in DOMAIN m} |->
                         {j \in N : perm[j] \in m[perm[i]]}]
    IN  [nodes |-> [i \in N |-> g.nodes[perm[i]]],
         edgesTo |-> Relabel(g.edgesTo),
         edgesFrom |-> Relabel(g.edgesFrom)]

InsertionOrders(n) ==
    {p \in [1..n -> 1..n] : \A i, j \in 1..n : i # j => p[i] # p[j]}

-----------------------------------------------------------------------------
(* The properties.                                                         *)

\* C1: for every acyclic graph walkGraph returns a nil error and a
\* topological order of all nodes: each node exactly once, no node before
\* a node it depends on.
C1_TopologicalOrder ==
    \A name \in GraphNames :
       (Walked(name) \/ Failed(name)) =>
           LET g == Built[name]
           IN  Acyclic(g) => (~Failed(name) /\ IsTopologicalOrder(ordered[name], g))

\* walkGraph has ordered an acyclic CSS graph in which a node has two
\* dependencies.
C1_Witness ==
    /\ Walked("css")
    /\ Acyclic(Built.css)
    /\ \E u \in DOMAIN Built.css.edgesFrom : Cardinality(Built.css.edgesFrom[u]) >= 2

\* C2: for a fixed set of distinct resources and a fixed edge relation,
\* walkGraph returns one and the same sequence, whatever the order in
\* which the nodes were inserted and whatever the sort and the map
\* iteration do.
C2_Deterministic ==
    \A name \in GraphNames :
       WalkCalled(name) =>
          /\ Cardinality(WalkResults(graphs[name])) = 1
          /\ \A perm \in InsertionOrders(Len(graphs[name].nodes)) :
                WalkResults(Reordered(graphs[name], perm)) = WalkResults(graphs[name])

-----------------------------------------------------------------------------
(* The declarations of the component tree, in the order buildGraphs reads  *)
(* them.                                                                   *)

NoOutput == [CSS |-> <<>>, HeaderJS |-> <<>>, FooterJS |-> <<>>]

\* The resources of graph `name` that call number `rank` of component c
\* returns: 1 is the linker (LinkCSS, LinkJS), 2 the embedder.
SliceSeq(name, c, rank) ==
    LET InFooter(res) == res.PlaceInFooter
        InHead(res) == ~res.PlaceInFooter
        js == IF rank = 1 THEN components[c].LinkJS ELSE components[c].EmbedJS
    IN  CASE name = "css" ->
                 IF rank = 1 THEN components[c].LinkCSS ELSE components[c].EmbedCSS
          [] name = "headJS" -> SelectSeq(js, InHead)
          [] name = "footJS" -> SelectSeq(js, InFooter)

Calls == (1..Len(components)) \X {1, 2}

\* The resources of graph `name` read before call <<c, rank>>.
ReadBefore(name, c, rank) ==
    UNION {Range(SliceSeq(name, d[1], d[2])) :
             d \in {e \in Calls : e[1] < c \/ (e[1] = c /\ e[2] < rank)}}

RECURSIVE DeclaredFrom(_, _, _)
DeclaredFrom(name, c, rank) ==
    IF c > Len(components) THEN <<>>
    ELSE SliceSeq(name, c, rank)
         \o (IF rank = 1 THEN DeclaredFrom(name, c, 2)
             ELSE DeclaredFrom(name, c + 1, 1))

\* Every declaration of graph `name`, in reading order.
Declared(name) == DeclaredFrom(name, 1, 1)

OutputOf(name) ==
    CASE name = "css" -> out.CSS
      [] name = "headJS" -> out.HeaderJS
      [] name = "footJS" -> out.FooterJS

PositionsOf(seq, m) == {k \in DOMAIN seq : seq[k] = m}

\* What the calculator of res for the kind of other returns; "none" when
\* that calculator is nil.
Verdict(res, other) ==
    LET calc == IF IsInline(other) THEN res.inlineCalc ELSE res.linkCalc
    IN  IF calc = NilCalculator THEN "none" ELSE Calculate(calc, other)

Plain(res) == ~HasCalculator(res) /\ ~res.DisableImplicitOrdering

\* C3: whenever the relation calculator of a resource X of a graph returns
\* Before for a resource Y of the same graph, every order that walkGraph
\* returns with a nil error has X strictly before Y; whenever it returns
\* After, X is strictly after Y.
C3_ExplicitRelations ==
    \A name \in GraphNames :
        Walked(name) =>
            LET nodes == Built[name].nodes
            IN  \A x, y \in DOMAIN nodes :
                    LET px == PositionsOf(ordered[name], nodes[x])
                        py == PositionsOf(ordered[name], nodes[y])
                    IN  /\ Verdict(nodes[x], nodes[y]) = ResourceRelationshipBefore
                            => /\ px # {} /\ py # {}
                               /\ \A i \in px, j \in py : i < j
                        /\ Verdict(nodes[x], nodes[y]) = ResourceRelationshipAfter
                            => /\ px # {} /\ py # {}
                               /\ \A i \in px, j \in py : i > j

\* The css graph was walked without error, and a resource whose calculator
\* says Before about another one both was discovered after it and sorts
\* after it by sortNodes.
C3_Witness ==
    /\ Walked("css")
    /\ \E x, y \in DOMAIN Built.css.nodes :
          /\ x > y
          /\ Verdict(Built.css.nodes[x], Built.css.nodes[y]) = ResourceRelationshipBefore
          /\ sortNodes(Built.css.nodes[x], Built.css.nodes[y]) = 1

\* C4: walkGraph returns ErrResourceCycle exactly when the graph it walks
\* has a dependency cycle; two resources that each say Before about the
\* other always end in ErrResourceCycle; and when basicRender has that
\* error it has rendered nothing.
C4_CycleError ==
    /\ \A name \in GraphNames :
          (Walked(name) \/ Failed(name)) =>
              LET g == Built[name]
              IN  /\ Failed(name) <=> ~Acyclic(g)
                  /\ \A x, y \in DOMAIN g.nodes :
                        (/\ x # y
                         /\ Verdict(g.nodes[x], g.nodes[y]) = ResourceRelationshipBefore
                         /\ Verdict(g.nodes[y], g.nodes[x]) = ResourceRelationshipBefore)
                        => Failed(name)
    /\ pc = "failed" => (err = "ErrResourceCycle" /\ out = NoOutput /\ ~ENABLED Next)

\* walkGraph returned ErrResourceCycle for two resources that each say
\* Before about the other, after it had put a third resource in its
\* results.
C4_Witness ==
    /\ Failed("css")
    /\ results # <<>>
    /\ \E x, y \in DOMAIN Built.css.nodes :
          /\ x # y
          /\ Verdict(Built.css.nodes[x], Built.css.nodes[y]) = ResourceRelationshipBefore
          /\ Verdict(Built.css.nodes[y], Built.css.nodes[x]) = ResourceRelationshipBefore

\* C5: declarations that are equal (same kind, identity and rendering
\* attributes, whatever their calculators and DisableImplicitOrdering)
\* become one node of the graph that the collection builds, the node is
\* the first such declaration in reading order, calculators and flags
\* included, and the page renders the resource exactly once, also when one
\* component is in the tree twice.
C5_Deduplicated ==
    \A name \in GraphNames :
        LET decls == Declared(name)
            nodes == graphs[name].nodes
            First(res) == decls[CHOOSE d \in DOMAIN decls :
                                  /\ equal(decls[d], res)
                                  /\ \A e \in 1..(d - 1) : ~equal(decls[e], res)]
        IN  /\ pc = "calculate" =>
                 /\ \A m, n \in DOMAIN nodes : equal(nodes[m], nodes[n]) => m = n
                 /\ \A d \in DOMAIN decls : \E n \in DOMAIN nodes : equal(nodes[n], decls[d])
                 /\ \A n \in DOMAIN nodes :
                       /\ \E d \in DOMAIN decls : equal(decls[d], nodes[n])
                       /\ nodes[n] = First(nodes[n])
            /\ pc = "done" =>
                 \A d \in DOMAIN decls :
                     Cardinality(PositionsOf(OutputOf(name), Markup(decls[d]))) = 1

\* The page is rendered from a tree in which two declarations are equal
\* but differ in a calculator or in DisableImplicitOrdering.
C5_Witness ==
    /\ pc = "done"
    /\ \E d, e \in DOMAIN Declared("css") :
          /\ d < e
          /\ equal(Declared("css")[d], Declared("css")[e])
          /\ Declared("css")[d] # Declared("css")[e]

\* The resources of slice seq are rendered in the order of the slice.
InSliceOrder(name, seq) ==
    \A i, j \in DOMAIN seq :
        i < j =>
            /\ PositionsOf(OutputOf(name), Markup(seq[i])) # {}
            /\ PositionsOf(OutputOf(name), Markup(seq[j])) # {}
            /\ \A a \in PositionsOf(OutputOf(name), Markup(seq[i])),
                  b \in PositionsOf(OutputOf(name), Markup(seq[j])) : a < b

\* A call that returns more than one resource, all different, none with a
\* calculator or DisableImplicitOrdering.
PlainSlice(seq) ==
    /\ Len(seq) > 1
    /\ \A i \in DOMAIN seq : Plain(seq[i])
    /\ \A i, j \in DOMAIN seq : equal(seq[i], seq[j]) => i = j

\* C6: when one call returns several different resources of one placement,
\* none with a calculator or DisableImplicitOrdering and none equal to a
\* resource read before the call, the page renders them in the order of
\* the slice, whatever their keys.
C6_ImplicitOrder ==
    pc = "done" =>
        \A name \in GraphNames : \A d \in Calls :
            LET seq == SliceSeq(name, d[1], d[2])
            IN  (/\ PlainSlice(seq)
                 /\ \A i \in DOMAIN seq :
                       \A res \in ReadBefore(name, d[1], d[2]) : ~equal(res, seq[i]))
                => InSliceOrder(name, seq)

\* The page is rendered from one call that returned three links in
\* descending order of their keys, and they are rendered in that order.
C6_Witness ==
    /\ pc = "done"
    /\ Len(components) = 1
    /\ Len(components[1].LinkCSS) = 3
    /\ PlainSlice(components[1].LinkCSS)
    /\ \A i, j \in 1..3 :
          i < j => components[1].LinkCSS[i].path > components[1].LinkCSS[j].path
    /\ out.CSS = [i \in 1..3 |-> Markup(components[1].LinkCSS[i])]

\* C7: when one call returns more than one resource in a slice, none with
\* a calculator or DisableImplicitOrdering, the page renders them in the
\* order of the slice, whatever the other components declare.
C7_SliceOrderKept ==
    pc = "done" =>
        \A name \in GraphNames : \A d \in Calls :
            PlainSlice(SliceSeq(name, d[1], d[2]))
                => InSliceOrder(name, SliceSeq(name, d[1], d[2]))

\* C8: a resource with DisableImplicitOrdering or with a relation
\* calculator has no implicit edge: once the resources are collected and
\* before the calculators are asked, its node depends on no node and no
\* node depends on it.
C8_NoImplicitEdges ==
    pc = "calculate" =>
        \A name \in GraphNames :
            \A n \in DOMAIN graphs[name].nodes :
                ~Plain(graphs[name].nodes[n]) =>
                    /\ MapGet(graphs[name].edgesFrom, n) = {}
                    /\ MapGet(graphs[name].edgesTo, n) = {}
                    /\ \A k \in DOMAIN graphs[name].edgesFrom : n \notin graphs[name].edgesFrom[k]
                    /\ \A k \in DOMAIN graphs[name].edgesTo : n \notin graphs[name].edgesTo[k]

\* One call returned a plain resource, then one with
\* DisableImplicitOrdering, then a plain one: the third depends on the
\* first.
C8_Witness ==
    /\ pc = "calculate"
    /\ Len(graphs.css.nodes) = 3
    /\ Plain(graphs.css.nodes[1])
    /\ graphs.css.nodes[2].DisableImplicitOrdering
    /\ Plain(graphs.css.nodes[3])
    /\ MapGet(graphs.css.edgesFrom, 3) = {1}

\* The tree is one component whose one call returns [B, A, C] with keys
\* A < B < C, B with DisableImplicitOrdering, no calculators.
Scenario9(seq) ==
    /\ Len(seq) = 3
    /\ seq[1].DisableImplicitOrdering /\ ~HasCalculator(seq[1])
    /\ Plain(seq[2]) /\ Plain(seq[3])
    /\ seq[2].path < seq[1].path /\ seq[1].path < seq[3].path

\* C9: a single call that returns [B, A, C], B with
\* DisableImplicitOrdering, keys A < B < C, no calculators, is rendered
\* A, B, C: the only edge is the one from C to A.
C9_DisabledFirst ==
    (/\ Len(components) = 1
     /\ \/ Scenario9(components[1].LinkCSS) /\ components[1].EmbedCSS = <<>>
        \/ Scenario9(components[1].EmbedCSS) /\ components[1].LinkCSS = <<>>)
    => LET seq == components[1].LinkCSS \o components[1].EmbedCSS
           g == Built.css
       IN  /\ g.edgesFrom = (3 :> {2})
           /\ g.edgesTo = (2 :> {3})
           /\ pc \notin {"failed", "panic"}
           /\ pc = "done" => out.CSS = <<Markup(seq[2]), Markup(seq[1]), Markup(seq[3])>>

C9_Witness ==
    /\ pc = "done"
    /\ Len(components) = 1
    /\ Scenario9(components[1].LinkCSS)
    /\ components[1].EmbedCSS = <<>>
    /\ Len(out.CSS) = 3

\* ascending by (kind, key), the kind of `first` coming first.
Ascending(seq, first) ==
    \A i, j \in DOMAIN seq :
        i < j =>
            \/ seq[i].type = first /\ seq[j].type # first
            \/ seq[i].type = seq[j].type /\ seq[i].path <= seq[j].path

NoEdges(g) == DOMAIN g.edgesFrom = {} /\ DOMAIN g.edgesTo = {}

\* C10, as the specification states it: a graph without ordering
\* constraints is walked in ascending order of (kind, key), inline
\* resources before link resources.
C10_InlineFirst ==
    (Walked("css") /\ NoEdges(Built.css)) => Ascending(ordered.css, "CSSInline")

\* C10, amended: a graph without ordering constraints is walked in
\* ascending order of (kind, key), link resources before inline
\* resources.
C10_LinkFirst ==
    (Walked("css") /\ NoEdges(Built.css)) => Ascending(ordered.css, "CSSLink")

\* A graph without edges whose first discovered node is inline and sorts
\* last, and that holds a link, was walked.
C10_Witness ==
    /\ Walked("css")
    /\ NoEdges(Built.css)
    /\ Len(Built.css.nodes) >= 2
    /\ IsInline(Built.css.nodes[1])
    /\ \E n \in DOMAIN Built.css.nodes : IsLink(Built.css.nodes[n])
    /\ ordered.css[1] # Built.css.nodes[1]

-----------------------------------------------------------------------------
(* Kinds and placements.                                                   *)

\* C11: in a graph without ordering constraints every link resource is
\* emitted before every inline resource, and of two resources of one kind
\* the one with the smaller Href, Src or TemplatePath is emitted first;
\* for the CSS graph and for both JavaScript graphs.
C11_LinksThenInlines ==
    \A name \in GraphNames :
        Walked(name) =>
            LET o == ordered[name]
            IN  NoEdges(Built[name]) =>
                    \A i, j \in DOMAIN o :
                        /\ (IsLink(o[i]) /\ IsInline(o[j])) => i < j
                        /\ (o[i].type = o[j].type /\ o[i].path < o[j].path) => i < j

\* The header graph, without edges and holding a link and an inline
\* script, was walked.
C11_Witness ==
    /\ Walked("headJS")
    /\ NoEdges(Built.headJS)
    /\ \E n, m \in DOMAIN Built.headJS.nodes :
          IsLink(Built.headJS.nodes[n]) /\ IsInline(Built.headJS.nodes[m])

\* The component list with only the declarations that belong to graph
\* `name`.
Restricted(name) ==
    [c \in DOMAIN components |->
       [LinkCSS |-> IF name = "css" THEN components[c].LinkCSS ELSE <<>>,
        EmbedCSS |-> IF name = "css" THEN components[c].EmbedCSS ELSE <<>>,
        LinkJS |-> IF name = "css" THEN <<>> ELSE SliceSeq(name, c, 1),
        EmbedJS |-> IF name = "css" THEN <<>> ELSE SliceSeq(name, c, 2)]]

PlacementGraph(res) == IF res.PlaceInFooter THEN "footJS" ELSE "headJS"

\* The position of the node equal to res in the node list.
NodeOf(nodes, res) == CHOOSE n \in DOMAIN nodes : equal(nodes[n], res)

\* C12: when one LinkJS or EmbedJS call returns header and footer
\* resources interleaved, each resource depends on the previous resource of
\* its own placement in that call and on nothing else, and the header and
\* the footer graph are what they would be if the resources of the other
\* placement were not declared at all.
C12_PerPlacement ==
    pc = "calculate" =>
        /\ \A name \in {"headJS", "footJS"} :
              graphs[name] = CollectResources(EmptyGraphs, Restricted(name), 1)[name]
        /\ \A d \in Calls :
              LET seq == IF d[2] = 1 THEN components[d[1]].LinkJS
                         ELSE components[d[1]].EmbedJS
                  before == ReadBefore("headJS", d[1], d[2])
                                \cup ReadBefore("footJS", d[1], d[2])
              IN  (/\ \A i \in DOMAIN seq : Plain(seq[i])
                   /\ \A i, j \in DOMAIN seq : equal(seq[i], seq[j]) => i = j
                   /\ \A i \in DOMAIN seq : \A res \in before : ~equal(res, seq[i]))
                  => \A j \in DOMAIN seq :
                        LET g == graphs[PlacementGraph(seq[j])]
                            same == {i \in 1..(j - 1) :
                                       seq[i].PlaceInFooter = seq[j].PlaceInFooter}
                            prev == CHOOSE i \in same : \A k \in same : k <= i
                        IN  MapGet(g.edgesFrom, NodeOf(g.nodes, seq[j])) =
                                IF same = {} THEN {}
                                ELSE {NodeOf(g.nodes, seq[prev])}

\* One LinkJS call returned a header, a footer and another header script:
\* the second header script depends on the first.
C12_Witness ==
    /\ pc = "calculate"
    /\ \E c \in DOMAIN components :
          /\ Len(components[c].LinkJS) = 3
          /\ ~components[c].LinkJS[1].PlaceInFooter
          /\ components[c].LinkJS[2].PlaceInFooter
          /\ ~components[c].LinkJS[3].PlaceInFooter
          /\ components[c].LinkJS[1].path # components[c].LinkJS[3].path
    /\ graphs.headJS.edgesFrom = (2 :> {1})
    /\ Len(graphs.footJS.nodes) = 1

\* Every position an edge map of g names.
EdgeEnds(g) ==
    DOMAIN g.edgesFrom \cup DOMAIN g.edgesTo
    \cup UNION {g.edgesFrom[k] : k \in DOMAIN g.edgesFrom}
    \cup UNION {g.edgesTo[k] : k \in DOMAIN g.edgesTo}

\* C13: a JavaScript resource is a node of the footer graph when its
\* PlaceInFooter is set and of the header graph otherwise, never of both;
\* the CSS graph holds the CSS resources only; every edge of a graph joins
\* two nodes of that graph, and each graph is what buildGraphs returns
\* for the declarations of that graph alone.
C13_GraphsApart ==
    (pc = "calculate" \/ WalkCalled("css")) =>
        /\ \A n \in DOMAIN graphs.css.nodes :
              graphs.css.nodes[n].type \in {"CSSLink", "CSSInline"}
        /\ \A name \in {"headJS", "footJS"} :
              /\ \A n \in DOMAIN graphs[name].nodes :
                    /\ graphs[name].nodes[n].type \in {"JSLink", "JSInline"}
                    /\ PlacementGraph(graphs[name].nodes[n]) = name
              /\ \A d \in DOMAIN Declared(name) :
                    /\ ContainsEqual(graphs[name].nodes, Declared(name)[d])
                    /\ \A other \in {"headJS", "footJS"} \ {name} :
                          ~ContainsEqual(graphs[other].nodes, Declared(name)[d])
        /\ \A name \in GraphNames :
              /\ EdgeEnds(graphs[name]) \subseteq DOMAIN graphs[name].nodes
              /\ WalkCalled("css") =>
                    graphs[name] = buildGraphs(Restricted(name))[name]

\* The relations are calculated, and a header script and a footer script
\* have the same Src or TemplatePath, the header graph having an edge.
C13_Witness ==
    /\ WalkCalled("css")
    /\ graphs.headJS.edgesFrom # <<>>
    /\ \E n \in DOMAIN graphs.headJS.nodes, m \in DOMAIN graphs.footJS.nodes :
          /\ graphs.headJS.nodes[n].path = graphs.footJS.nodes[m].path
          /\ graphs.headJS.nodes[n].type = graphs.footJS.nodes[m].type

\* C18: a resource may set one of its two relation calculators and leave
\* the other nil: buildGraphs then completes, and between that resource
\* and a resource of the kind of the nil calculator there is no edge,
\* unless the other resource's own calculator asks for one; in the CSS
\* graph and in both JavaScript graphs.
C18_OneCalculator ==
    /\ pc # "panic"
    /\ WalkCalled("css") =>
          \A name \in GraphNames :
              LET g == graphs[name]
              IN  \A x, y \in DOMAIN g.nodes :
                      (/\ HasCalculator(g.nodes[x])
                       /\ Verdict(g.nodes[x], g.nodes[y]) = "none"
                       /\ Verdict(g.nodes[y], g.nodes[x])
                              \in {"none", ResourceRelationshipNeutral})
                      => /\ x \notin MapGet(g.edgesFrom, y)
                         /\ y \notin MapGet(g.edgesFrom, x)

-----------------------------------------------------------------------------
(* Inline resources without a TemplatePath.                                *)

EmptyPath(res) == IsInline(res) /\ res.path = 0

-----------------------------------------------------------------------------
(* Render.                                                                 *)

\* Render has been called and has applied the render options.
Called == page # NoPage

\* Render has returned from a call.
RenderReturned == pc = "idle" /\ Called

\* The chunks written to the writer that come from the requested page.
OfPage == {i \in DOMAIN writer : writer[i].from = page.key}

\* The last of a list of options, the default when there is none.
LastOption(options) == options # <<>> /\ options[Len(options)]

\* C14: with page buffering enabled, nothing of the requested page is in
\* the writer unless the page was rendered completely and without error;
\* after a failed render, whatever the stage of the failure, the writer
\* holds at most the server-error output: the complete server error page,
\* or the text "Server error.".
C14_NothingOfFailedPage ==
    (Called /\ ~opts.disablePageBuffering) =>
        /\ \A i \in OfPage : writer[i].complete /\ pageErr = "nil"
        /\ (pc \in Returned /\ phase = "page" /\ err # "nil") => writer = <<>>
        /\ (RenderReturned /\ pageErr # "nil") =>
              \A i \in DOMAIN writer :
                  /\ writer[i].complete
                  /\ writer[i].from = IF site.pager THEN site.errorPage.key
                                      ELSE "Server error."

\* Render returned for a page whose template failed to execute in the
\* middle, with page buffering enabled: only the server error page was
\* written.
C14_Witness ==
    /\ RenderReturned
    /\ page.execFails
    /\ pageErr = "ErrExecute"
    /\ ~opts.disablePageBuffering
    /\ site.pager
    /\ Len(writer) = 1
    /\ writer[1] = PageOutput(site.errorPage, tmpl, out, TRUE)

\* C15: when Render has returned and the requested page could not be
\* rendered, the last thing written to the writer is the Site's server
\* error page, complete, if the Site is a ServerErrorPager, and the text
\* "Server error." otherwise.
C15_ErrorPageWritten ==
    (RenderReturned /\ pageErr # "nil") =>
        /\ writer # <<>>
        /\ writer[Len(writer)].complete
        /\ writer[Len(writer)].from = IF site.pager THEN site.errorPage.key
                                      ELSE "Server error."

GotTemplate == pc = "collect"

\* The template paths the page being rendered needs.
NeededPaths == {req.templates[i] : i \in DOMAIN req.templates}

\* C16: for a TemplateCacher, getTemplate returns the cached template,
\* reading no file, only if the cached template has a template named as
\* each path the page needs; when the template cached for the Key lacks a
\* needed path, the files are read and parsed afresh, and the template
\* returned and cached for the Key is that new parse.
C16_CacheReuse ==
    (site.cacher /\ GotTemplate) =>
        /\ reads = {} =>
              /\ lookup # NilTemplate
              /\ NeededPaths \subseteq TemplateNames(lookup)
              /\ tmpl = lookup
              /\ GetCachedTemplate(templateCache, req.key) = lookup
        /\ (lookup # NilTemplate /\ ~(NeededPaths \subseteq TemplateNames(lookup))) =>
              /\ reads # {}
              /\ NeededPaths \cap TemplateFiles \subseteq reads
              /\ tmpl = {<<f, files[f]>> : f \in reads}
              /\ GetCachedTemplate(templateCache, req.key) = tmpl

\* The page with baz.tmpl is rendered after the page of the same Key
\* without it, a file both need having changed in between: the cached
\* template was replaced by a parse of the three files as they are now.
C16_Witness ==
    /\ site.cacher
    /\ GotTemplate
    /\ req = FooBazPage
    /\ lookup = {<<"base.tmpl", 1>>, <<"foo.tmpl", 1>>}
    /\ files["foo.tmpl"] = 2
    /\ templateCache[req.key] =
          {<<"base.tmpl", files["base.tmpl"]>>, <<"foo.tmpl", 2>>,
           <<"baz.tmpl", files["baz.tmpl"]>>}

\* The same page is rendered again by a TemplateCacher that rendered it
\* before.
RenderedAgain ==
    /\ site.cacher
    /\ lastCall.called
    /\ lastCall.ok
    /\ lastCall.page = page

\* C17: when a CachedSite that has rendered a page renders the same page
\* again, getTemplate reads no template file, and what Render writes is
\* what it wrote the first time, whatever files changed in between.
C17_SameOutput ==
    RenderedAgain =>
        /\ (GotTemplate /\ phase = "page") => reads = {}
        /\ RenderReturned => writer = lastCall.writer

-----------------------------------------------------------------------------
(* The edges of the graphs.                                                *)

\* buildGraphs has returned: the graphs are complete and no edge has been
\* consumed by walkGraph yet.
GraphsBuilt == WalkCalled("css")

\* C22: when buildGraphs has returned, no graph has an edge from a node to
\* that same node.
C22_NoSelfEdges ==
    GraphsBuilt =>
        \A name \in GraphNames : \A e \in DependsOn(graphs[name]) : e[1] # e[2]

\* Collection is over and no relation calculator has been evaluated: the
\* edges of the graphs are the implicit edges.
Collected == pc = "calculate"

\* Call d is read before call e: components in list order, and the linker
\* of a component before its embedder.
CallBefore(d, e) == d[1] < e[1] \/ (d[1] = e[1] /\ d[2] < e[2])

\* The calls whose slice for graph `name` holds a resource equal to res.
CallsWith(name, res) ==
    {d \in Calls : \E i \in DOMAIN SliceSeq(name, d[1], d[2]) :
                      equal(SliceSeq(name, d[1], d[2])[i], res)}

\* The call that made res a node of graph `name`: the first that returns
\* it.
FirstCall(name, res) ==
    CHOOSE d \in CallsWith(name, res) :
        \A e \in CallsWith(name, res) : e = d \/ CallBefore(d, e)

\* C23: after collection, both ends of every edge are resources that one
\* and the same call of one capability of one component made nodes: the
\* call that first returned the one is the call that first returned the
\* other.
C23_ImplicitScope ==
    Collected =>
        \A name \in GraphNames :
            \A e \in DependsOn(graphs[name]) :
                FirstCall(name, graphs[name].nodes[e[1]])
                    = FirstCall(name, graphs[name].nodes[e[2]])

\* A component links two style sheets and embeds one block, or two
\* components declare three resources between them: the CSS graph has
\* three nodes from more than one call, and an implicit edge.
C23_Witness ==
    /\ Collected
    /\ Len(graphs.css.nodes) = 3
    /\ DependsOn(graphs.css) # {}
    /\ \E n, m \in 1..3 :
          FirstCall("css", graphs.css.nodes[n]) # FirstCall("css", graphs.css.nodes[m])

\* Some declared resource has a relation calculator.
AnyCalculator ==
    \E name \in GraphNames : \E i \in DOMAIN Declared(name) :
        HasCalculator(Declared(name)[i])

\* C29: after collection every edge goes from a node to a node of a lower
\* position, so the graphs are acyclic; and for components none of whose
\* resources has a relation calculator walkGraph never returns
\* ErrResourceCycle.
C29_ImplicitAcyclic ==
    /\ Collected =>
          \A name \in GraphNames :
              /\ \A e \in DependsOn(graphs[name]) : e[2] < e[1]
              /\ Acyclic(graphs[name])
    /\ pc = "failed" => AnyCalculator

\* Two components without calculators declare three CSS resources, one of
\* them a duplicate; the two nodes are linked by an implicit edge and all
\* three graphs have been walked without error.
C29_Witness ==
    /\ pc = "render"
    /\ ~AnyCalculator
    /\ Len(components) = 2
    /\ Len(Declared("css")) = 3
    /\ Len(ordered.css) = 2
    /\ DependsOn(Built.css) # {}

\* The graphs as they were when collection ended.
AfterCollection == CollectResources(EmptyGraphs, components, 1)

\* C25: when buildGraphs has returned, every graph has the nodes and all
\* the edges it had after collection; every other edge u -> v comes from a
\* verdict After of u on v or a verdict Before of v on u, so a Neutral
\* verdict adds none; edgesTo is the inverse of edgesFrom; and when X
\* answers Before for Y and Y answers After for X, the edge Y -> X is in
\* the maps once.
C25_OnlyAdds ==
    GraphsBuilt =>
        \A name \in GraphNames :
            LET before == AfterCollection[name]
                g == graphs[name]
                nodes == g.nodes
            IN  /\ nodes = before.nodes
                /\ DependsOn(before) \subseteq DependsOn(g)
                /\ \A e \in DependsOn(g) \ DependsOn(before) :
                      \/ Verdict(nodes[e[1]], nodes[e[2]]) = ResourceRelationshipAfter
                      \/ Verdict(nodes[e[2]], nodes[e[1]]) = ResourceRelationshipBefore
                /\ \A u, v \in DOMAIN nodes :
                      v \in MapGet(g.edgesFrom, u) <=> u \in MapGet(g.edgesTo, v)
                /\ \A x, y \in DOMAIN nodes :
                      (/\ Verdict(nodes[x], nodes[y]) = ResourceRelationshipBefore
                       /\ Verdict(nodes[y], nodes[x]) = ResourceRelationshipAfter)
                      => /\ <<y, x>> \in DependsOn(g)
                         /\ Cardinality({e \in DependsOn(g) : e[1] = y /\ e[2] = x}) = 1

\* Two links without calculators, joined by an implicit edge, and a third
\* whose calculator answers Before for the first and Neutral for the
\* second: the implicit edge is kept and one edge is added.
C25_Witness ==
    /\ GraphsBuilt
    /\ Len(graphs.css.nodes) = 3
    /\ DependsOn(AfterCollection.css) = {<<2, 1>>}
    /\ Verdict(graphs.css.nodes[3], graphs.css.nodes[1]) = ResourceRelationshipBefore
    /\ Verdict(graphs.css.nodes[3], graphs.css.nodes[2]) = ResourceRelationshipNeutral
    /\ DependsOn(graphs.css) = {<<2, 1>>, <<1, 3>>}

\* The component whose call made res a node of graph `name`.
ComponentOf(name, res) == FirstCall(name, res)[1]

\* C26: no calculator is evaluated during collection, so after collection
\* no edge touches a resource that has a calculator; and when walkGraph
\* returns an order without error, a resource whose calculator answers
\* Before for a resource of another component is strictly before it in
\* that order, whichever of the two components was walked first.
C26_AcrossComponents ==
    /\ Collected =>
          \A name \in GraphNames : \A e \in DependsOn(graphs[name]) :
              /\ ~HasCalculator(graphs[name].nodes[e[1]])
              /\ ~HasCalculator(graphs[name].nodes[e[2]])
    /\ \A name \in GraphNames :
          Walked(name) =>
              LET nodes == Built[name].nodes
              IN  \A x, y \in DOMAIN nodes :
                      (/\ ComponentOf(name, nodes[x]) # ComponentOf(name, nodes[y])
                       /\ Verdict(nodes[x], nodes[y]) = ResourceRelationshipBefore)
                      => \A i \in PositionsOf(ordered[name], nodes[x]) :
                             \A j \in PositionsOf(ordered[name], nodes[y]) : i < j

\* The link of the second component answers Before for the link of the
\* first, whose Href sorts lower: it was discovered later and is rendered
\* first.
C26_Witness ==
    /\ Walked("css")
    /\ Len(components) = 2
    /\ Len(Built.css.nodes) = 2
    /\ ComponentOf("css", Built.css.nodes[2]) = 2
    /\ Verdict(Built.css.nodes[2], Built.css.nodes[1]) = ResourceRelationshipBefore
    /\ Built.css.nodes[1].path < Built.css.nodes[2].path
    /\ ordered.css = <<Built.css.nodes[2], Built.css.nodes[1]>>

-----------------------------------------------------------------------------
(* The main loop of walkGraph.                                             *)

\* walkGraph is in its main loop for graph `cur`.
InLoop == pc = "walkLoop"

\* The positions of the nodes of graph g already appended to results.
Emitted(g) == {n \in DOMAIN g.nodes : \E i \in DOMAIN results : results[i] = g.nodes[n]}

\* The positions of the nodes of graph g, as buildGraphs returned it, that
\* have not been emitted and all of whose dependencies have.
Eligible(g) ==
    {n \in DOMAIN g.nodes :
        /\ n \notin Emitted(g)
        /\ MapGet(g.edgesFrom, n) \subseteq Emitted(g)}

\* A step of the main loop: one more node in results.
LoopStep == InLoop /\ pc' = "walkLoop" /\ cur' = cur /\ Len(results') = Len(results) + 1

\* C24: in the main loop of walkGraph the ready list holds exactly the
\* nodes not yet emitted whose dependencies have all been emitted, in an
\* order the comparator accepts as sorted; and the node a step appends to
\* the output is such a node, with no other such node comparing lower.
C24_SmallestReady ==
    /\ [](InLoop =>
            LET g == Built[cur]
            IN  /\ Range(noParents) = Eligible(g)
                /\ \A i, j \in DOMAIN noParents :
                      i < j => sortNodesByPos(g.nodes, noParents[i], noParents[j]) <= 0)
    /\ [][LoopStep =>
            LET g == Built[cur]
            IN  \E n \in Eligible(g) :
                    /\ results' = Append(results, g.nodes[n])
                    /\ \A m \in Eligible(g) : sortNodes(g.nodes[n], g.nodes[m]) <= 0]_vars

\* The first link has been emitted, which released the third, whose Href
\* sorts below that of the second, ready from the start: the ready list
\* was sorted again and the third link is taken next.
C24_Witness ==
    /\ InLoop
    /\ cur = "css"
    /\ Len(results) = 1
    /\ noParents = <<3, 2>>
    /\ MapGet(Built.css.edgesFrom, 3) = {1}
    /\ MapGet(Built.css.edgesFrom, 2) = {}
    /\ sortNodes(Built.css.nodes[3], Built.css.nodes[2]) < 0

\* C30: in the main loop of walkGraph no node is in the ready list twice,
\* no node in it has been emitted, and no node has been emitted twice; a
\* step removes the node it emits from the ready list and adds only nodes
\* that were neither in it nor emitted; the loop, once entered, comes to an
\* end; and when walkGraph has returned ErrResourceCycle some edge is left,
\* while at the start of the next walk and at the end of the last one the
\* graph just walked has no edge left.
C30_WalkTerminates ==
    /\ [](InLoop =>
            /\ \A i, j \in DOMAIN noParents : i # j => noParents[i] # noParents[j]
            /\ Range(noParents) \cap Emitted(graphs[cur]) = {}
            /\ \A i, j \in DOMAIN results : i # j => results[i] # results[j]
            /\ Len(results) + Len(noParents) <= Len(graphs[cur].nodes))
    /\ [][LoopStep =>
            /\ results' = Append(results, graphs[cur].nodes[noParents[1]])
            /\ noParents[1] \notin Range(noParents')
            /\ (Range(noParents') \ Range(noParents)) \cap Emitted(graphs[cur]) = {}]_vars
    /\ [](pc = "failed" => err = "ErrResourceCycle" /\ EdgesRemain(graphs[cur]))
    /\ [](\A name \in GraphNames : Walked(name) => NoEdges(graphs[name]))
    /\ (InLoop ~> (pc \in {"render", "failed"}))

\* walkGraph has emitted one of three links and returned ErrResourceCycle
\* for the two others, which depend on each other.
C30_Witness ==
    /\ pc = "failed"
    /\ Len(graphs.css.nodes) = 3
    /\ Len(results) = 1
    /\ DOMAIN graphs.css.edgesFrom = {2, 3} \/ DOMAIN graphs.css.edgesFrom = {1, 2}
           \/ DOMAIN graphs.css.edgesFrom = {1, 3}

-----------------------------------------------------------------------------
(* C27: getRecursiveComponents.                                            *)

Expanded == pc = "expanded"

\* The child indexes followed from the root to an occurrence of a
\* component: <<>> for the root, <<2, 1>> for the first child of the
\* second child of the root.
ChildPaths == UNION {[1..n -> 1..MaxUses] : n \in 0..(MaxUses - 1)}

\* The component the path leads to from root, 0 when the tree has no such
\* occurrence.
RECURSIVE ComponentAt(_, _, _)
ComponentAt(u, root, path) ==
    IF path = <<>> THEN root
    ELSE LET parent == ComponentAt(u, root, SubSeq(path, 1, Len(path) - 1))
             i == path[Len(path)]
         IN  IF parent = 0 \/ i > Len(u[parent]) THEN 0 ELSE u[parent][i]

TreeOccurrences(u, root) == {path \in ChildPaths : ComponentAt(u, root, path) # 0}

\* Depth-first pre-order: an occurrence comes before the occurrences below
\* it, and the occurrences below a child before those below a later child.
PreOrderBefore(p, q) ==
    /\ p # q
    /\ \/ Len(p) < Len(q) /\ p = SubSeq(q, 1, Len(p))
       \/ \E k \in 1..Len(p) :
            /\ k <= Len(q)
            /\ p[k] < q[k]
            /\ SubSeq(p, 1, k - 1) = SubSeq(q, 1, k - 1)

PreOrderRank(occ, p) == 1 + Cardinality({q \in occ : PreOrderBefore(q, p)})

\* C27: for a finite, acyclic uses-tree getRecursiveComponents returns (the
\* call is enabled for every tree and every root), and the list it returns
\* starts with the root and holds one entry for every occurrence of a
\* component in the tree, at the place of that occurrence in the
\* depth-first pre-order; so a component occurring k times in the tree
\* occurs k times in the list.
C27_PreOrder ==
    /\ pc = "uses" => ENABLED GetRecursiveComponents
    /\ Expanded =>
         LET root == components[1]
             occ == TreeOccurrences(uses, root)
         IN  /\ Len(components) = Cardinality(occ)
             /\ \A p \in occ :
                  components[PreOrderRank(occ, p)] = ComponentAt(uses, root, p)
             /\ \A c \in 1..MaxUses :
                  Cardinality({i \in DOMAIN components : components[i] = c})
                    = Cardinality({p \in occ : ComponentAt(uses, root, p) = c})

\* The tree of the duplicate components example: the page uses a layout and
\* an avatar, the layout uses the avatar; the avatar is listed twice.
C27_Witness ==
    /\ Expanded
    /\ uses[1] = <<2, 3>>
    /\ uses[2] = <<3>>
    /\ components = <<1, 2, 3, 3>>

-----------------------------------------------------------------------------
(* C28: the markup of a script and the template key it shares.             *)

\* C28: every resource is rendered as the markup of its own attributes:
\* a JSLink or JSInline is rendered with its own type attribute, whatever
\* other resources of the same template key were parsed before it in the
\* render or cached by an earlier render on the Site.
C28_OwnMarkup ==
    pc = "done" =>
        /\ out.CSS = [i \in DOMAIN ordered.css |-> Markup(ordered.css[i])]
        /\ out.HeaderJS = [i \in DOMAIN ordered.headJS |-> Markup(ordered.headJS[i])]
        /\ out.FooterJS = [i \in DOMAIN ordered.footJS |-> Markup(ordered.footJS[i])]

-----------------------------------------------------------------------------
(* C21: concurrent renders and the caches of a CachedSite.                 *)

CachesOfSite == {"template", "resource"}

\* The goroutine is at the read, or at the write, of the map of the cache.
Reading(g, cache) == goroutines[g].pc = "read" /\ goroutines[g].cache = cache
Writing(g, cache) == goroutines[g].pc = "write" /\ goroutines[g].cache = cache

AllDone == \A g \in Goroutines : goroutines[g].pc = "done"

\* The key the goroutine uses in the cache.
KeyIn(g, cache) ==
    IF cache = "template" THEN <<"page", goroutines[g].page>>
    ELSE getKey(goroutines[g].res)

BothMissed(g, h, cache) ==
    /\ g # h
    /\ KeyIn(g, cache) = KeyIn(h, cache)
    /\ cache \in goroutines[g].missed
    /\ cache \in goroutines[h].missed

\* C21: two renders sharing a CachedSite never race on its caches: a
\* goroutine reads the map of a cache only while it holds the cache's read
\* lock and nobody holds its write lock, writes it only while it holds the
\* write lock and nobody holds the read lock, and so no write happens
\* beside another access; both renders get a template and a body; and when
\* both missed the same key, each has made its own value and the cache
\* holds one of the two.
C21_NoRace ==
    /\ \A g \in Goroutines : \A cache \in CachesOfSite :
         /\ Reading(g, cache) =>
              g \in Mu(cache).readers /\ Mu(cache).writer = 0
         /\ Writing(g, cache) =>
              Mu(cache).writer = g /\ Mu(cache).readers = {}
         /\ \A h \in Goroutines \ {g} :
              ~(Writing(g, cache) /\ (Reading(h, cache) \/ Writing(h, cache)))
    /\ AllDone =>
         /\ \A g \in Goroutines :
              goroutines[g].tmpl # NilTemplate /\ goroutines[g].body # NoBody
         /\ \A g, h \in Goroutines :
              /\ BothMissed(g, h, "template") =>
                   /\ goroutines[g].tmpl = {<<goroutines[g].page, g>>}
                   /\ goroutines[h].tmpl = {<<goroutines[h].page, h>>}
                   /\ templateCache[goroutines[g].page]
                        \in {goroutines[g].tmpl, goroutines[h].tmpl}
              /\ BothMissed(g, h, "resource") =>
                   /\ goroutines[g].body = getBody(goroutines[g].res)
                   /\ goroutines[h].body = getBody(goroutines[h].res)
                   /\ resourceCache[getKey(goroutines[g].res)]
                        \in {goroutines[g].body, goroutines[h].body}

\* Both renders missed the template of the same page and the body of the
\* same key, whose bodies differ, and both have returned.
C21_Witness ==
    /\ AllDone
    /\ BothMissed(1, 2, "template")
    /\ BothMissed(1, 2, "resource")
    /\ goroutines[1].body # goroutines[2].body

====
